---- MODULE Spec2Model ----
(***************************************************************************)
(* zkPDF: signature validation, text extraction and the commitment layer.  *)
(* PDF files are byte sequences (0..255); Rust Option<T> is a sequence of  *)
(* length 0 or 1; Rust Result<T, E> is a record [ok, val, err].            *)
(***************************************************************************)
EXTENDS Integers, Sequences, FiniteSets, TLC

(* ------------------------------------------------------------------ *)
(* Generic helpers                                                    *)
(* ------------------------------------------------------------------ *)

None == <<>>

Some(x) == <<x>>

IsSome(o) == Len(o) > 0

Ok(v) == [ok |-> TRUE, val |-> v, err |-> "none"]

Err(e) == [ok |-> FALSE, val |-> <<>>, err |-> e]

Unset == [ok |-> FALSE, val |-> <<>>, err |-> "unset"]

MinOf(S) == CHOOSE x \in S : \A y \in S : x <= y

MaxOf(S) == CHOOSE x \in S : \A y \in S : x >= y

\* data[from..to) with 0-based, end-exclusive Rust slice indices
Slice(data, from, to) == SubSeq(data, from + 1, to)

\* slice.windows(n).position(|w| w == key): every 0-based match position
Positions(data, key) ==
  {i \in 0..(Len(data) - Len(key)) : Slice(data, i, i + Len(key)) = key}

\* iter().position(|&b| b == byte) on data[from..], as an absolute index
BytePositionsFrom(data, from, byte) ==
  {i \in from..(Len(data) - 1) : data[i + 1] = byte}

\* u8::is_ascii_whitespace: SP, HT, LF, FF, CR
IsAsciiWhitespace(b) == b \in {32, 9, 10, 12, 13}

\* char::is_whitespace restricted to ASCII (adds VT), used by split_whitespace
IsUnicodeWhitespace(b) == b \in {32, 9, 10, 11, 12, 13}

IsAsciiDigit(b) == b >= 48 /\ b <= 57

\* str::from_utf8 succeeds on the slice: the model's files hold ASCII and the
\* lone bytes 128..255, which are never valid UTF-8 on their own
IsUtf8(data) == \A i \in 1..Len(data) : data[i] < 128

(* ------------------------------------------------------------------ *)
(* Digests. The SHA family is an external library; it is modelled as  *)
(* a collision-free map: a tag byte for the algorithm followed by an   *)
(* invertible affine image of every input byte.                        *)
(* ------------------------------------------------------------------ *)

AlgTag(alg) ==
  CASE alg = "Sha1WithRsaEncryption" -> 1
    [] alg = "Sha256WithRsaEncryption" -> 2
    [] alg = "Sha384WithRsaEncryption" -> 3
    [] alg = "Sha512WithRsaEncryption" -> 5
    [] OTHER -> 0

ShaDigest(alg, data) ==
  <<AlgTag(alg)>> \o [i \in 1..Len(data) |-> (data[i] * 7 + i) % 256]

(* ------------------------------------------------------------------ *)
(* signature-validator/src/signed_bytes_extractor.rs                   *)
(* ------------------------------------------------------------------ *)

KW_BYTERANGE == <<47, 66, 121, 116, 101, 82, 97, 110, 103, 101>>

KW_CONTENTS == <<47, 67, 111, 110, 116, 101, 110, 116, 115>>

\* number of bits of usize on the build target
UsizeBits == 16

UsizeLimit == 2 ^ UsizeBits

\* str::split_whitespace: the maximal runs of non-whitespace bytes
RECURSIVE SplitWhitespaceFrom(_, _, _)
SplitWhitespaceFrom(data, i, cur) ==
  IF i > Len(data)
  THEN IF cur = <<>> THEN <<>> ELSE <<cur>>
  ELSE IF IsUnicodeWhitespace(data[i])
       THEN (IF cur = <<>> THEN <<>> ELSE <<cur>>)
              \o SplitWhitespaceFrom(data, i + 1, <<>>)
       ELSE SplitWhitespaceFrom(data, i + 1, Append(cur, data[i]))

SplitWhitespace(data) == SplitWhitespaceFrom(data, 1, <<>>)

RECURSIVE DigitsValue(_, _, _)
DigitsValue(tok, i, acc) ==
  IF i > Len(tok) THEN acc
  ELSE DigitsValue(tok, i + 1, acc * 10 + (tok[i] - 48))

\* s.parse::<usize>().ok(): an optional '+', then one or more digits, and a
\* value that fits usize
ParseUsize(tok) ==
  LET body == IF Len(tok) > 0 /\ tok[1] = 43 THEN Tail(tok) ELSE tok
  IN IF Len(body) = 0 \/ \E i \in 1..Len(body) : ~IsAsciiDigit(body[i])
     THEN None
     ELSE LET v == DigitsValue(body, 1, 0)
          IN IF v >= UsizeLimit THEN None ELSE Some(v)

RECURSIVE FilterMapParse(_)
FilterMapParse(toks) ==
  IF toks = <<>> THEN <<>>
  ELSE ParseUsize(Head(toks)) \o FilterMapParse(Tail(toks))

Take(s, n) == IF Len(s) <= n THEN s ELSE SubSeq(s, 1, n)

\* usize addition in a release build (overflow checks off): wraps
UsizeAdd(a, b) == (a + b) % UsizeLimit

\* lines 13-38: the numbers of the array, at most four of them
byte_range_nums(pdf_bytes) ==
  LET brs == Positions(pdf_bytes, KW_BYTERANGE)
  IN IF brs = {} THEN Err("ByteRangeNotFound")
     ELSE
     LET br_pos == MinOf(brs)
         lbs == BytePositionsFrom(pdf_bytes, br_pos, 91)
     IN IF lbs = {} THEN Err("ByteRangeStartMissing")
        ELSE
        LET br_start == MinOf(lbs) + 1
            rbs == BytePositionsFrom(pdf_bytes, br_start, 93)
        IN IF rbs = {} THEN Err("ByteRangeEndMissing")
           ELSE
           LET br_end == MinOf(rbs)
               br_str == Slice(pdf_bytes, br_start, br_end)
           IN IF ~IsUtf8(br_str) THEN Err("InvalidByteRangeUtf8")
              ELSE
              LET nums == Take(FilterMapParse(SplitWhitespace(br_str)), 4)
              IN IF Len(nums) # 4 THEN Err("InvalidByteRangeCount")
                 ELSE Ok(nums)

parse_byte_range(pdf_bytes) ==
  LET nums == byte_range_nums(pdf_bytes)
  IN IF ~nums.ok THEN nums
     ELSE IF UsizeAdd(nums.val[1], nums.val[2]) > Len(pdf_bytes)
             \/ UsizeAdd(nums.val[3], nums.val[4]) > Len(pdf_bytes)
          THEN Err("ByteRangeOutOfBounds")
          ELSE Ok([offset1 |-> nums.val[1], len1 |-> nums.val[2],
                   offset2 |-> nums.val[3], len2 |-> nums.val[4]])

extract_signed_data(pdf_bytes, byte_range) ==
  Slice(pdf_bytes, byte_range.offset1, byte_range.offset1 + byte_range.len1)
    \o Slice(pdf_bytes, byte_range.offset2, byte_range.offset2 + byte_range.len2)

\* the cursor after skipping ASCII whitespace from `cursor`
RECURSIVE SkipAsciiWhitespace(_, _)
SkipAsciiWhitespace(data, cursor) ==
  IF cursor < Len(data) /\ IsAsciiWhitespace(data[cursor + 1])
  THEN SkipAsciiWhitespace(data, cursor + 1)
  ELSE cursor

\* the byte after `/Contents` at `pos` (whitespace skipped) is '<'
ContentsOpensAt(data, pos) ==
  LET cursor == SkipAsciiWhitespace(data, pos + Len(KW_CONTENTS))
  IN cursor < Len(data) /\ data[cursor + 1] = 60

\* the backward loop of extract_signature_hex: the last `/Contents` that lies
\* wholly before search_end and is followed by '<'
RECURSIVE BackwardContents(_, _)
BackwardContents(data, search_end) ==
  LET cands == {p \in Positions(data, KW_CONTENTS) : p + Len(KW_CONTENTS) <= search_end}
  IN IF search_end <= 0 \/ cands = {} THEN None
     ELSE LET pos == MaxOf(cands)
          IN IF ContentsOpensAt(data, pos) THEN Some(pos)
             ELSE BackwardContents(data, pos)

\* the forward loop of extract_signature_hex, from byte_range_pos
ForwardContents(data, byte_range_pos) ==
  LET cands == {p \in Positions(data, KW_CONTENTS) :
                  p >= byte_range_pos /\ ContentsOpensAt(data, p)}
  IN IF cands = {} THEN None ELSE Some(MinOf(cands))

RemoveWhitespace(data) == SelectSeq(data, LAMBDA b : ~IsUnicodeWhitespace(b))

extract_signature_hex(pdf_bytes, byte_range_pos) ==
  LET fwd == ForwardContents(pdf_bytes, byte_range_pos)
      contents_pos == IF IsSome(fwd) THEN fwd
                      ELSE BackwardContents(pdf_bytes, byte_range_pos)
  IN IF ~IsSome(contents_pos) THEN Err("ContentsNotFound")
     ELSE
     LET cursor_pos == SkipAsciiWhitespace(pdf_bytes, contents_pos[1] + Len(KW_CONTENTS))
         hex_start == cursor_pos + 1
         ends == BytePositionsFrom(pdf_bytes, hex_start, 62)
     IN IF ends = {} THEN Err("ContentsEndMissing")
        ELSE LET hex_slice == Slice(pdf_bytes, hex_start, MinOf(ends))
             IN IF ~IsUtf8(hex_slice) THEN Err("InvalidContentsUtf8")
                ELSE Ok(RemoveWhitespace(hex_slice))

\* hex::decode's value of one hex digit, -1 for any other byte
HexVal(c) ==
  IF c >= 48 /\ c <= 57 THEN c - 48
  ELSE IF c >= 97 /\ c <= 102 THEN c - 87
  ELSE IF c >= 65 /\ c <= 70 THEN c - 55
  ELSE -1

RECURSIVE TrimTrailingZeros(_)
TrimTrailingZeros(bytes) ==
  IF Len(bytes) > 0 /\ bytes[Len(bytes)] = 0
  THEN TrimTrailingZeros(SubSeq(bytes, 1, Len(bytes) - 1))
  ELSE bytes

decode_signature_hex(hex_str) ==
  IF Len(hex_str) % 2 # 0 \/ \E i \in 1..Len(hex_str) : HexVal(hex_str[i]) < 0
  THEN Err("ContentsHexDecode")
  ELSE Ok(TrimTrailingZeros(
            [i \in 1..(Len(hex_str) \div 2) |->
               HexVal(hex_str[2 * i - 1]) * 16 + HexVal(hex_str[2 * i])]))

get_signature_der(pdf_bytes) ==
  LET byte_range == parse_byte_range(pdf_bytes)
  IN IF ~byte_range.ok THEN byte_range
     ELSE
     LET signed_data == extract_signed_data(pdf_bytes, byte_range.val)
         br_pos == MinOf(Positions(pdf_bytes, KW_BYTERANGE))
         hex_str == extract_signature_hex(pdf_bytes, br_pos)
     IN IF ~hex_str.ok THEN hex_str
        ELSE LET signature_der == decode_signature_hex(hex_str.val)
             IN IF ~signature_der.ok THEN signature_der
                ELSE Ok([signature_der |-> signature_der.val,
                         signed_data |-> signed_data])

(* ------------------------------------------------------------------ *)
(* signature-validator/src/pkcs7_parser.rs                             *)
(* The DER decoder (simple_asn1::from_der) is an external library: a   *)
(* decoded blob is the record `asn` of the fields the parser reads:    *)
(*   shape        "ok", "der_error" or "structure_error"               *)
(*   digest_oid   the SignerInfo digest algorithm                      *)
(*   signed_attrs Option of [content, message_digest : Option(bytes)]  *)
(*   embedded     Option of the encapsulated content OCTET STRING      *)
(*   signature    Option of the encryptedDigest OCTET STRING           *)
(*   cert         Option of [modulus, exponent] of the signer's cert   *)
(* An RSA signature value is [kind, key, alg, digest]: kind "pkcs1" is  *)
(* a PKCS#1 v1.5 signature made with the private key of modulus `key`   *)
(* over `digest` under `alg`.                                           *)
(* ------------------------------------------------------------------ *)

digest_algorithm_from_oid(digest_oid) ==
  CASE digest_oid = "sha1" -> Ok("Sha1WithRsaEncryption")
    [] digest_oid = "sha256" -> Ok("Sha256WithRsaEncryption")
    [] digest_oid = "sha384" -> Ok("Sha384WithRsaEncryption")
    [] digest_oid = "sha512" -> Ok("Sha512WithRsaEncryption")
    [] OTHER -> Err("Pkcs7UnsupportedDigestOid")

\* the DER length octets of a definite length, as the function writes them
SignedAttrsLengthBytes(len) ==
  IF len < 128 THEN <<len>>
  ELSE IF len <= 255 THEN <<129, len % 256>>
  ELSE <<130, (len \div 256) % 256, len % 256>>

extract_signed_attributes_der(asn) ==
  IF IsSome(asn.signed_attrs)
  THEN LET content == asn.signed_attrs[1].content
       IN Some(<<49>> \o SignedAttrsLengthBytes(Len(content)) \o content)
  ELSE None

compute_signed_attributes_digest(signed_attrs_der, digest_oid) ==
  LET algorithm == digest_algorithm_from_oid(digest_oid)
  IN IF ~algorithm.ok THEN algorithm
     ELSE Ok([digest |-> ShaDigest(algorithm.val, signed_attrs_der),
              algo |-> algorithm.val])

extract_message_digest(asn) ==
  IF IsSome(asn.signed_attrs[1].message_digest)
  THEN Ok(asn.signed_attrs[1].message_digest[1])
  ELSE Err("Pkcs7MissingMessageDigest")

extract_signature(asn) ==
  IF IsSome(asn.signature) THEN Ok(asn.signature[1])
  ELSE Err("Pkcs7Structure")

\* get_signature_data leaving the expected digest out when the SignerInfo
\* has no signed attributes
get_signature_data_no_expected(asn) ==
  LET signed_attrs_der == extract_signed_attributes_der(asn)
      signature == extract_signature(asn)
  IN IF IsSome(signed_attrs_der)
     THEN LET d == compute_signed_attributes_digest(signed_attrs_der[1], asn.digest_oid)
              message_digest == extract_message_digest(asn)
          IN IF ~d.ok THEN d
             ELSE IF ~message_digest.ok THEN message_digest
             ELSE IF ~signature.ok THEN signature
             ELSE Ok([signature |-> signature.val,
                      digest_bytes |-> Some(d.val.digest),
                      signed_algo |-> d.val.algo,
                      expected_message_digest |-> Some(message_digest.val)])
     ELSE IF ~IsSome(asn.embedded) THEN Err("Pkcs7Structure")
     ELSE LET digest == asn.embedded[1]
              algo == digest_algorithm_from_oid(asn.digest_oid)
          IN IF ~algo.ok THEN algo
             ELSE IF ~signature.ok THEN signature
             ELSE Ok([signature |-> signature.val,
                      digest_bytes |-> Some(ShaDigest(algo.val, digest)),
                      signed_algo |-> algo.val,
                      expected_message_digest |-> None])

get_signature_data(asn) ==
  LET signed_attrs_der == extract_signed_attributes_der(asn)
      signature == extract_signature(asn)
  IN IF IsSome(signed_attrs_der)
     THEN LET d == compute_signed_attributes_digest(signed_attrs_der[1], asn.digest_oid)
              message_digest == extract_message_digest(asn)
          IN IF ~d.ok THEN d
             ELSE IF ~message_digest.ok THEN message_digest
             ELSE IF ~signature.ok THEN signature
             ELSE Ok([signature |-> signature.val,
                      digest_bytes |-> Some(d.val.digest),
                      signed_algo |-> d.val.algo,
                      expected_message_digest |-> Some(message_digest.val)])
     ELSE IF ~IsSome(asn.embedded) THEN Err("Pkcs7Structure")
     ELSE LET digest == asn.embedded[1]
              algo == digest_algorithm_from_oid(asn.digest_oid)
          IN IF ~algo.ok THEN algo
             ELSE IF ~signature.ok THEN signature
             ELSE Ok([signature |-> signature.val,
                      digest_bytes |-> Some(ShaDigest(algo.val, digest)),
                      signed_algo |-> algo.val,
                      expected_message_digest |-> Some(digest)])

extract_pubkey_components(asn) ==
  IF IsSome(asn.cert) THEN Ok(asn.cert[1]) ELSE Err("Pkcs7Structure")

\* parse_signed_data on the decoded view of a blob
parse_signed_view(asn) ==
  IF asn.shape = "der_error" THEN Err("Pkcs7Der")
  ELSE IF asn.shape # "ok" THEN Err("Pkcs7Structure")
  ELSE LET signature_data == get_signature_data(asn)
       IN IF ~signature_data.ok THEN signature_data
          ELSE LET key == extract_pubkey_components(asn)
               IN IF ~key.ok THEN key
                  ELSE Ok([modulus |-> key.val.modulus,
                           exponent |-> key.val.exponent,
                           signature |-> signature_data.val.signature,
                           signed_attr_digest |-> signature_data.val.digest_bytes,
                           algorithm |-> signature_data.val.signed_algo,
                           signed_data_message_digest |->
                             signature_data.val.expected_message_digest])

(* ------------------------------------------------------------------ *)
(* signature-validator/src/lib.rs                                      *)
(* ------------------------------------------------------------------ *)

SupportedAlgorithms ==
  {"Sha1WithRsaEncryption", "Sha256WithRsaEncryption",
   "Sha384WithRsaEncryption", "Sha512WithRsaEncryption"}

calculate_signed_data_hash(signed_data, algorithm) ==
  IF algorithm \in SupportedAlgorithms
  THEN Ok(ShaDigest(algorithm, signed_data))
  ELSE Err("UnsupportedAlgorithm")

\* RsaPublicKey::new rejects a public exponent below 2
create_rsa_public_key(verifier_params) ==
  IF verifier_params.exponent < 2 THEN Err("InvalidPublicKey")
  ELSE Ok([modulus |-> verifier_params.modulus,
           exponent |-> verifier_params.exponent])

get_pkcs1v15_padding(algorithm) ==
  IF algorithm \in SupportedAlgorithms THEN Ok(algorithm)
  ELSE Err("UnsupportedAlgorithm")

\* RsaPublicKey::verify(Pkcs1v15Sign): "ok", "Verification" or another error
RsaVerify(pub_key, padding, digest, signature) ==
  IF signature.kind # "pkcs1" THEN "Internal"
  ELSE IF signature.key = pub_key.modulus /\ signature.alg = padding
          /\ signature.digest = digest
       THEN "ok"
       ELSE "Verification"

\* the match of lines 71-77 with every error taken as a failed check
verify_rsa_signature_lenient(pub_key, padding, signed_attr_digest, signature) ==
  Ok(RsaVerify(pub_key, padding, signed_attr_digest, signature) = "ok")

verify_rsa_signature(pub_key, padding, signed_attr_digest, signature) ==
  LET r == RsaVerify(pub_key, padding, signed_attr_digest, signature)
  IN IF r = "ok" THEN Ok(TRUE)
     ELSE IF r = "Verification" THEN Ok(FALSE)
     ELSE Err("SignatureVerification")

\* EncodeRsaPublicKey::to_pkcs1_der: SEQUENCE { INTEGER modulus, INTEGER e }
ToPkcs1Der(pub_key) ==
  LET body == <<2, Len(pub_key.modulus)>> \o pub_key.modulus
                \o <<2, 1, pub_key.exponent % 256>>
  IN <<48, Len(body)>> \o body

\* CHECK 1 without the comparison of lines 89-96
check_message_digest_uncompared(signed_data, verifier_params) ==
  calculate_signed_data_hash(signed_data, verifier_params.algorithm)

\* CHECK 1 of verify_pdf_signature: the message digest
check_message_digest(signed_data, verifier_params) ==
  LET calculated == calculate_signed_data_hash(signed_data, verifier_params.algorithm)
  IN IF ~calculated.ok THEN calculated
     ELSE IF IsSome(verifier_params.signed_data_message_digest)
             /\ verifier_params.signed_data_message_digest[1] # calculated.val
          THEN Err("MessageDigestMismatch")
          ELSE calculated

\* lines 101-104: signed_attr_digest.unwrap_or_else(|| calculated)
digest_for_signature(verifier_params, calculated_signed_data_hash) ==
  IF IsSome(verifier_params.signed_attr_digest)
  THEN verifier_params.signed_attr_digest[1]
  ELSE calculated_signed_data_hash

\* CHECK 2 of verify_pdf_signature: the RSA signature, and the result
check_rsa_signature(verifier_params, calculated_signed_data_hash) ==
  LET pub_key == create_rsa_public_key(verifier_params)
      padding == get_pkcs1v15_padding(verifier_params.algorithm)
  IN IF ~pub_key.ok THEN pub_key
     ELSE IF ~padding.ok THEN padding
     ELSE LET is_verified == verify_rsa_signature(pub_key.val, padding.val,
                               digest_for_signature(verifier_params,
                                                    calculated_signed_data_hash),
                               verifier_params.signature)
          IN IF ~is_verified.ok THEN is_verified
             ELSE Ok([is_valid |-> is_verified.val,
                      message_digest |->
                        IF IsSome(verifier_params.signed_data_message_digest)
                        THEN verifier_params.signed_data_message_digest[1]
                        ELSE calculated_signed_data_hash,
                      public_key |-> ToPkcs1Der(pub_key.val)])

(* ------------------------------------------------------------------ *)
(* The input files of the model. A file is                             *)
(*   head /ByteRange[o1 l1 o2 l2]/Contents <hex blob> tail              *)
(* or, with contents_first, head /Contents <hex blob> /ByteRange[..]    *)
(* tail; the four integers are two decimal digits each and bracket the  *)
(* blob. The blob is one byte naming the decoded view of its DER.       *)
(* A "narrow" file signs one byte only: its second segment is the tens  *)
(* digit of its own offset, and its first segment is empty.             *)
(* ------------------------------------------------------------------ *)

Dec2(n) == <<48 + ((n \div 10) % 10), 48 + (n % 10)>>

HexDigit(v) == IF v < 10 THEN 48 + v ELSE 55 + v

Hex2(b) == <<HexDigit((b \div 16) % 16), HexDigit(b % 16)>>

ByteRangeArray(o1, l1, o2, l2) ==
  <<91>> \o Dec2(o1) \o <<32>> \o Dec2(l1) \o <<32>> \o Dec2(o2)
    \o <<32>> \o Dec2(l2) \o <<93>>

Blob(id) == <<60>> \o Hex2(id) \o <<62>>

\* the bytes before and after the blob
FileParts(sp) ==
  IF sp.mode = "narrow"
  THEN LET o2 == Len(sp.head) + Len(KW_BYTERANGE) + 7
       IN [before |-> sp.head \o KW_BYTERANGE \o ByteRangeArray(0, 0, o2, 1)
                        \o KW_CONTENTS,
           after |-> sp.tail]
  ELSE IF sp.contents_first
  THEN LET before == sp.head \o KW_CONTENTS
           l1 == Len(before)
           o2 == l1 + 4
           l2 == Len(KW_BYTERANGE) + 13 + Len(sp.tail)
       IN [before |-> before,
           after |-> KW_BYTERANGE \o ByteRangeArray(0, l1, o2, l2) \o sp.tail]
  ELSE LET l1 == Len(sp.head) + Len(KW_BYTERANGE) + 13 + Len(KW_CONTENTS)
           o2 == l1 + 4
           l2 == Len(sp.tail)
       IN [before |-> sp.head \o KW_BYTERANGE \o ByteRangeArray(0, l1, o2, l2)
                        \o KW_CONTENTS,
           after |-> sp.tail]

KeyA == [modulus |-> <<187, 17>>, exponent |-> 3]

KeyWeak == [modulus |-> <<187, 17>>, exponent |-> 1]

\* what the signer of a file put in the blob, by the file's mode
SignerView(sp, signed_data) ==
  LET oid == sp.oid
      algo == digest_algorithm_from_oid(IF oid = "md5" THEN "sha1" ELSE oid).val
      md == ShaDigest(algo, signed_data)
      wrong == ShaDigest(algo, signed_data \o <<0>>)
      attrs_md == IF sp.mode = "md_mismatch" THEN Some(wrong)
                  ELSE IF sp.mode = "no_md" THEN None ELSE Some(md)
      content == <<4, 9>> \o (IF IsSome(attrs_md) THEN attrs_md[1] ELSE <<>>)
      has_attrs == sp.mode \notin {"embedded", "no_embedded", "embedded_bad_sig"}
      attrs_der == <<49>> \o SignedAttrsLengthBytes(Len(content)) \o content
      covered == IF has_attrs THEN ShaDigest(algo, attrs_der) ELSE ShaDigest(algo, md)
      sig == [kind |-> IF sp.mode = "rsa_internal" THEN "raw" ELSE "pkcs1",
              key |-> KeyA.modulus, alg |-> algo,
              digest |-> IF sp.mode \in {"bad_sig", "embedded_bad_sig"}
                         THEN wrong ELSE covered]
  IN [shape |-> IF sp.mode \in {"der_error", "structure_error"} THEN sp.mode ELSE "ok",
      digest_oid |-> oid,
      signed_attrs |-> IF has_attrs
                       THEN Some([content |-> content, message_digest |-> attrs_md])
                       ELSE None,
      embedded |-> IF sp.mode \in {"embedded", "embedded_bad_sig"} THEN Some(md) ELSE None,
      signature |-> IF sp.mode = "no_sig" THEN None ELSE Some(sig),
      cert |-> IF sp.mode = "no_cert" THEN None
               ELSE IF sp.mode = "bad_key" THEN Some(KeyWeak) ELSE Some(KeyA)]

Sample(head, tail, contents_first, oid, mode) ==
  [head |-> head, tail |-> tail, contents_first |-> contents_first,
   oid |-> oid, mode |-> mode]

SampleParams ==
  << Sample(<<37, 80>>, <<69, 79, 70>>, FALSE, "sha1", "valid"),
     Sample(<<37>>, <<10>>, TRUE, "sha256", "valid"),
     Sample(<<>>, <<120>>, FALSE, "sha384", "embedded"),
     Sample(<<37>>, <<69>>, FALSE, "sha512", "bad_sig"),
     Sample(<<37>>, <<69>>, FALSE, "sha1", "embedded_bad_sig"),
     Sample(<<37>>, <<69>>, FALSE, "sha1", "md_mismatch"),
     Sample(<<37>>, <<69>>, FALSE, "sha1", "no_md"),
     Sample(<<37>>, <<69>>, FALSE, "sha1", "no_embedded"),
     Sample(<<37>>, <<69>>, FALSE, "sha1", "der_error"),
     Sample(<<37>>, <<69>>, FALSE, "sha1", "structure_error"),
     Sample(<<37>>, <<69>>, FALSE, "md5", "valid"),
     Sample(<<37>>, <<69>>, FALSE, "sha1", "no_sig"),
     Sample(<<37>>, <<69>>, FALSE, "sha1", "no_cert"),
     Sample(<<37>>, <<69>>, FALSE, "sha1", "bad_key"),
     Sample(<<37>>, <<69>>, FALSE, "sha1", "rsa_internal"),
     Sample(<<>>, <<32, 49>>, FALSE, "sha256", "narrow") >>

SampleIds == 1..Len(SampleParams)

SampleFile(id) ==
  LET parts == FileParts(SampleParams[id])
  IN parts.before \o Blob(id) \o parts.after

\* the bytes the signer of a sample digested: what its ByteRange covers
SampleSignedData(id) ==
  extract_signed_data(SampleFile(id), parse_byte_range(SampleFile(id)).val)

\* simple_asn1::from_der on a blob: the view the file's signer encoded
FromDer(signature_der) ==
  IF Len(signature_der) = 1 /\ signature_der[1] \in SampleIds
  THEN SignerView(SampleParams[signature_der[1]], SampleSignedData(signature_der[1]))
  ELSE [shape |-> "der_error", digest_oid |-> "sha1", signed_attrs |-> None,
        embedded |-> None, signature |-> None, cert |-> None]

parse_signed_data(der_bytes) == parse_signed_view(FromDer(der_bytes))

verify_pdf_signature(pdf_bytes) ==
  LET der == get_signature_der(pdf_bytes)
  IN IF ~der.ok THEN der
     ELSE LET verifier_params == parse_signed_data(der.val.signature_der)
          IN IF ~verifier_params.ok THEN verifier_params
             ELSE LET calculated == check_message_digest(der.val.signed_data,
                                                         verifier_params.val)
                  IN IF ~calculated.ok THEN calculated
                     ELSE check_rsa_signature(verifier_params.val, calculated.val)

\* files that fail before the blob is decoded
BrokenFiles ==
  { <<37, 80, 68, 70>>,
    KW_BYTERANGE \o <<32, 48>>,
    KW_BYTERANGE \o <<91, 48, 32, 49>>,
    KW_BYTERANGE \o <<91, 48, 32, 49, 32, 50, 93>> \o KW_CONTENTS \o Blob(1),
    KW_BYTERANGE \o <<91, 48, 32, 49, 32, 50, 32, 57, 57, 93>> \o KW_CONTENTS \o Blob(1),
    KW_BYTERANGE \o <<91, 48, 32, 200, 32, 50, 32, 51, 93>>,
    KW_BYTERANGE \o <<91, 48, 32, 49, 32, 50, 32, 51, 93>>,
    KW_BYTERANGE \o <<91, 48, 32, 49, 32, 50, 32, 51, 93>> \o KW_CONTENTS \o <<60, 48>>,
    KW_BYTERANGE \o <<91, 48, 32, 49, 32, 50, 32, 51, 93>> \o KW_CONTENTS
      \o <<60, 200, 62>>,
    KW_BYTERANGE \o <<91, 48, 32, 49, 32, 50, 32, 51, 93>> \o KW_CONTENTS
      \o <<60, 48, 62>> }

(* ------------------------------------------------------------------ *)
(* Rust strings. A text is a sequence of Unicode scalar values; a      *)
(* String holds its UTF-8 encoding.                                     *)
(* ------------------------------------------------------------------ *)

Utf8Char(cp) ==
  IF cp < 128 THEN <<cp>>
  ELSE IF cp < 2048 THEN <<192 + (cp \div 64), 128 + (cp % 64)>>
  ELSE <<224 + (cp \div 4096), 128 + ((cp \div 64) % 64), 128 + (cp % 64)>>

RECURSIVE Utf8(_)
Utf8(text) == IF text = <<>> THEN <<>> ELSE Utf8Char(Head(text)) \o Utf8(Tail(text))

\* str::is_char_boundary
IsCharBoundary(bytes, index) ==
  IF index = 0 THEN TRUE
  ELSE IF index >= Len(bytes) THEN index = Len(bytes)
  ELSE bytes[index + 1] < 128 \/ bytes[index + 1] >= 192

\* str::get(offset..)
StrGetFrom(bytes, offset) ==
  IF IsCharBoundary(bytes, offset)
  THEN Some(SubSeq(bytes, offset + 1, Len(bytes)))
  ELSE None

\* str::starts_with(&str)
StartsWith(bytes, prefix) ==
  Len(prefix) <= Len(bytes) /\ SubSeq(bytes, 1, Len(prefix)) = prefix

(* ------------------------------------------------------------------ *)
(* pdf-utils/core/src/lib.rs                                           *)
(* A pdf is [bytes, body]: body is what the extractor makes of the      *)
(* file's objects, Ok(pages) or Err(ParseError / DecompressionError).   *)
(* ------------------------------------------------------------------ *)

extract_text(pdf) == pdf.body

\* verify_and_extract without its is_valid check (lines 54-56 left out)
verify_and_extract_ignoring_is_valid(pdf, sig) ==
  IF ~sig.ok THEN Err(sig.err)
  ELSE LET pages == extract_text(pdf)
       IN IF ~pages.ok THEN Err(pages.err)
          ELSE Ok([pages |-> pages.val, signature |-> sig.val])

\* verify_and_extract extracting the text before it looks at the signature
verify_and_extract_text_first(pdf, sig) ==
  LET pages == extract_text(pdf)
  IN IF ~pages.ok THEN Err(pages.err)
     ELSE IF ~sig.ok THEN Err(sig.err)
     ELSE IF ~sig.val.is_valid THEN Err("signature verification failed")
     ELSE Ok([pages |-> pages.val, signature |-> sig.val])

\* verify_and_extract after verify_pdf_signature returned `signature`
verify_and_extract_from(pdf, signature) ==
  IF ~signature.ok THEN Err(signature.err)
  ELSE IF ~signature.val.is_valid THEN Err("signature verification failed")
  ELSE LET pages == extract_text(pdf)
       IN IF ~pages.ok THEN Err(pages.err)
          ELSE Ok([pages |-> pages.val, signature |-> signature.val])

verify_and_extract(pdf) ==
  verify_and_extract_from(pdf, verify_pdf_signature(pdf.bytes))

\* verify_text answering "no match" for a page out of range
verify_text_no_page_error(content, page_number, sub_string, offset) ==
  IF ~content.ok THEN Err(content.err)
  ELSE LET pages == content.val.pages
       IN IF page_number >= Len(pages)
          THEN Ok([substring_matches |-> FALSE, signature |-> content.val.signature])
          ELSE LET slice == StrGetFrom(Utf8(pages[page_number + 1]), offset)
               IN Ok([substring_matches |->
                        IF IsSome(slice) THEN StartsWith(slice[1], Utf8(sub_string))
                        ELSE FALSE,
                      signature |-> content.val.signature])

\* verify_text after verify_and_extract returned `content`
verify_text_from(content, page_number, sub_string, offset) ==
  IF ~content.ok THEN Err(content.err)
  ELSE LET pages == content.val.pages
           index == page_number
       IN IF index >= Len(pages) THEN Err("page out of bounds")
          ELSE LET page_text == Utf8(pages[index + 1])
                   slice == StrGetFrom(page_text, offset)
                   result == IF IsSome(slice)
                             THEN StartsWith(slice[1], Utf8(sub_string))
                             ELSE FALSE
               IN Ok([substring_matches |-> result,
                      signature |-> content.val.signature])

verify_text(pdf, page_number, sub_string, offset) ==
  verify_text_from(verify_and_extract(pdf), page_number, sub_string, offset)

(* ------------------------------------------------------------------ *)
(* circuits/lib: nullifier.rs, types.rs, lib.rs; circuits/program       *)
(* Keccak-256 is an external library: 32 bytes that depend on the       *)
(* length and on every input byte with its position.                    *)
(* ------------------------------------------------------------------ *)

HASH_LEN == 32

RECURSIVE StrideSum(_, _)
StrideSum(data, j) ==
  IF j > Len(data) THEN 0
  ELSE data[j] * (1 + 2 * ((j - 1) \div HASH_LEN)) + StrideSum(data, j + HASH_LEN)

Keccak256(data) ==
  [i \in 1..HASH_LEN |-> (Len(data) * 31 + i * 17 + StrideSum(data, i)) % 256]

NULLIFIER_DOMAIN ==
  <<122, 107, 112, 100, 102, 45, 110, 117, 108, 108, 105, 102, 105, 101, 114,
    45, 118, 48>>

B256_ZERO == [i \in 1..HASH_LEN |-> 0]

\* u32::to_be_bytes
ToBeBytes(offset) ==
  <<(offset \div 16777216) % 256, (offset \div 65536) % 256,
    (offset \div 256) % 256, offset % 256>>

\* the preimage with the offset little-endian
NullifierPreimageLittleEndian(message_digest_hash, signer_key_hash, substring_hash, page_number, offset) ==
  NULLIFIER_DOMAIN \o message_digest_hash \o signer_key_hash \o substring_hash
    \o <<page_number>>
    \o <<offset % 256, (offset \div 256) % 256, (offset \div 65536) % 256,
         (offset \div 16777216) % 256>>

\* the preimage without the page number byte
NullifierPreimageWithoutPage(message_digest_hash, signer_key_hash, substring_hash, page_number, offset) ==
  NULLIFIER_DOMAIN \o message_digest_hash \o signer_key_hash \o substring_hash
    \o ToBeBytes(offset)

\* the preimage vector compute_nullifier builds, extend by extend
NullifierPreimage(message_digest_hash, signer_key_hash, substring_hash, page_number, offset) ==
  LET p1 == NULLIFIER_DOMAIN
      p2 == p1 \o message_digest_hash
      p3 == p2 \o signer_key_hash
      p4 == p3 \o substring_hash
      p5 == Append(p4, page_number)
  IN p5 \o ToBeBytes(offset)

compute_nullifier(message_digest_hash, signer_key_hash, substring_hash, page_number, offset) ==
  Keccak256(NullifierPreimage(message_digest_hash, signer_key_hash,
                              substring_hash, page_number, offset))

failure ==
  [substring_matches |-> FALSE, message_digest_hash |-> B256_ZERO,
   signer_key_hash |-> B256_ZERO, substring_hash |-> B256_ZERO,
   nullifier |-> B256_ZERO]

from_verification(sub_string, page_number, offset, verification_result) ==
  LET message_digest_hash == Keccak256(verification_result.signature.message_digest)
      pub_key_hash == Keccak256(verification_result.signature.public_key)
      sub_string_hash == Keccak256(Utf8(sub_string))
  IN [substring_matches |-> verification_result.substring_matches,
      message_digest_hash |-> message_digest_hash,
      signer_key_hash |-> pub_key_hash,
      substring_hash |-> sub_string_hash,
      nullifier |-> compute_nullifier(message_digest_hash, pub_key_hash,
                                      sub_string_hash, page_number, offset)]

\* verify_pdf_claim after verify_text returned `result`
verify_pdf_claim_from(result, input) ==
  IF ~result.ok THEN Err(result.err)
  ELSE Ok(from_verification(input.substring, input.page_number, input.offset,
                            result.val))

\* impl From<PDFCircuitOutput> for PublicValuesStruct
PublicValues(output) ==
  [substringMatches |-> output.substring_matches,
   messageDigestHash |-> output.message_digest_hash,
   signerKeyHash |-> output.signer_key_hash,
   substringHash |-> output.substring_hash,
   nullifier |-> output.nullifier]

\* PublicValuesStruct::abi_encode: (bool, bytes32, bytes32, bytes32, bytes32)
AbiEncode(pv) ==
  [i \in 1..(HASH_LEN - 1) |-> 0] \o <<IF pv.substringMatches THEN 1 ELSE 0>>
    \o pv.messageDigestHash \o pv.signerKeyHash \o pv.substringHash \o pv.nullifier

\* main with an error output that keeps a non-zero substring hash
main_output_keeping_hash(c) ==
  IF c.ok THEN c.val
  ELSE [failure EXCEPT !.substring_hash = Keccak256(<<>>)]

\* main: verify_pdf_claim(input).unwrap_or_else(|_| failure()), then the bytes
main_output(claim) == IF claim.ok THEN claim.val ELSE failure

(* ------------------------------------------------------------------ *)
(* The circuit run: main reads one PDFCircuitInput and walks            *)
(* verify_pdf_claim -> verify_text -> verify_and_extract ->             *)
(* verify_pdf_signature, one step per call.                             *)
(* ------------------------------------------------------------------ *)

VARIABLES pc, input, sb, params, calc, signature, content, result, preimage,
          claim, committed

\* two executions of parse_pdf on one file
VARIABLES dDoc, dPc, dRemaining, dTrailer, dResult

\* verify_pdf_signature on a signed file with one byte changed
VARIABLES tPc, tSample, tPos, tByte

\* parse_content_tokens
VARIABLES kPc, kData, kI, kTokens

\* traverse_pages
VARIABLES gPc, gObjects, gCall, gStack, gPages

\* extract_from_tokens with Form XObjects
VARIABLES fPc, fForms, fStack, fVisited, fLog

\* one call of a function on one argument: the function, what it is given
\* and what it returns
VARIABLES uFn, uArg, uRet

vVars == <<pc, input, sb, params, calc, signature, content, result, preimage,
           claim, committed>>

dVars == <<dDoc, dPc, dRemaining, dTrailer, dResult>>

tVars == <<tPc, tSample, tPos, tByte>>

kVars == <<kPc, kData, kI, kTokens>>

gVars == <<gPc, gObjects, gCall, gStack, gPages>>

fVars == <<fPc, fForms, fStack, fVisited, fLog>>

uVars == <<uFn, uArg, uRet>>

vars == <<vVars, dVars, tVars, kVars, gVars, fVars, uVars>>

\* the variables a specification does not use stay as they start
dOff == dDoc = <<>> /\ dPc = <<>> /\ dRemaining = <<>> /\ dTrailer = <<>> /\ dResult = <<>>

tOff == tPc = "off" /\ tSample = 0 /\ tPos = 0 /\ tByte = 0

kOff == kPc = "off" /\ kData = <<>> /\ kI = 0 /\ kTokens = <<>>

gOff == gPc = "off" /\ gObjects = <<>> /\ gCall = 0 /\ gStack = <<>> /\ gPages = <<>>

fOff == fPc = "off" /\ fForms = <<>> /\ fStack = <<>> /\ fVisited = {} /\ fLog = <<>>

uOff == uFn = "off" /\ uArg = <<>> /\ uRet = <<>>

MaxPage == 2

MaxOffset == 4

Texts == { <<72, 105>>, <<233, 65>>, <<65, 8364>> }

Substrings == { <<>>, <<72>>, <<65>>, <<233>>, <<72, 105>>, <<8364>> }

Bodies ==
  { Err("ParseError"), Err("DecompressionError"), Ok(<<>>),
    Ok(<< <<72, 105>> >>), Ok(<< <<233, 65>>, <<65, 8364>> >>) }

SamplePdfs ==
  {[bytes |-> SampleFile(i), body |-> b] : i \in SampleIds, b \in Bodies}
    \cup {[bytes |-> f, body |-> b] : f \in BrokenFiles, b \in Bodies}

Inputs ==
  [pdf : SamplePdfs, page_number : 0..MaxPage, offset : 0..MaxOffset,
   substring : Substrings]

vIdle ==
  /\ sb = Unset /\ params = Unset /\ calc = Unset /\ signature = Unset
  /\ content = Unset /\ result = Unset /\ preimage = <<>> /\ claim = Unset
  /\ committed = <<>>

vOff == pc = "off" /\ input = <<>> /\ vIdle

Init ==
  /\ pc = "get_signature_der"
  /\ input \in Inputs
  /\ vIdle
  /\ dOff /\ tOff /\ kOff /\ gOff /\ fOff /\ uOff

\* verify_pdf_signature, line 81
GetSignatureDer ==
  /\ pc = "get_signature_der"
  /\ sb' = get_signature_der(input.pdf.bytes)
  /\ IF sb'.ok
     THEN pc' = "parse_signed_data" /\ UNCHANGED signature
     ELSE pc' = "verify_and_extract" /\ signature' = Err(sb'.err)
  /\ UNCHANGED <<input, params, calc, content, result, preimage, claim, committed>>
  /\ UNCHANGED <<dVars, tVars, kVars, gVars, fVars, uVars>>

\* verify_pdf_signature, line 83
ParseSignedData ==
  /\ pc = "parse_signed_data"
  /\ params' = parse_signed_data(sb.val.signature_der)
  /\ IF params'.ok
     THEN pc' = "check_message_digest" /\ UNCHANGED signature
     ELSE pc' = "verify_and_extract" /\ signature' = Err(params'.err)
  /\ UNCHANGED <<input, sb, calc, content, result, preimage, claim, committed>>
  /\ UNCHANGED <<dVars, tVars, kVars, gVars, fVars, uVars>>

\* verify_pdf_signature, lines 85-96
CheckMessageDigest ==
  /\ pc = "check_message_digest"
  /\ calc' = check_message_digest(sb.val.signed_data, params.val)
  /\ IF calc'.ok
     THEN pc' = "check_rsa_signature" /\ UNCHANGED signature
     ELSE pc' = "verify_and_extract" /\ signature' = Err(calc'.err)
  /\ UNCHANGED <<input, sb, params, content, result, preimage, claim, committed>>
  /\ UNCHANGED <<dVars, tVars, kVars, gVars, fVars, uVars>>

\* verify_pdf_signature, lines 98-123
CheckRsaSignature ==
  /\ pc = "check_rsa_signature"
  /\ signature' = check_rsa_signature(params.val, calc.val)
  /\ pc' = "verify_and_extract"
  /\ UNCHANGED <<input, sb, params, calc, content, result, preimage, claim, committed>>
  /\ UNCHANGED <<dVars, tVars, kVars, gVars, fVars, uVars>>

\* verify_and_extract, lines 50-62
VerifyAndExtract ==
  /\ pc = "verify_and_extract"
  /\ content' = verify_and_extract_from(input.pdf, signature)
  /\ pc' = "verify_text"
  /\ UNCHANGED <<input, sb, params, calc, signature, result, preimage, claim, committed>>
  /\ UNCHANGED <<dVars, tVars, kVars, gVars, fVars, uVars>>

\* verify_text, lines 20-41
VerifyText ==
  /\ pc = "verify_text"
  /\ result' = verify_text_from(content, input.page_number, input.substring,
                                input.offset)
  /\ pc' = "verify_pdf_claim"
  /\ UNCHANGED <<input, sb, params, calc, signature, content, preimage, claim, committed>>
  /\ UNCHANGED <<dVars, tVars, kVars, gVars, fVars, uVars>>

\* verify_pdf_claim, lines 31-40, with compute_nullifier's preimage
VerifyPdfClaim ==
  /\ pc = "verify_pdf_claim"
  /\ claim' = verify_pdf_claim_from(result, input)
  /\ preimage' = IF claim'.ok
                 THEN NullifierPreimage(claim'.val.message_digest_hash,
                                        claim'.val.signer_key_hash,
                                        claim'.val.substring_hash,
                                        input.page_number, input.offset)
                 ELSE <<>>
  /\ pc' = "commit"
  /\ UNCHANGED <<input, sb, params, calc, signature, content, result, committed>>
  /\ UNCHANGED <<dVars, tVars, kVars, gVars, fVars, uVars>>

\* main, lines 12-18
Commit ==
  /\ pc = "commit"
  /\ committed' = AbiEncode(PublicValues(main_output(claim)))
  /\ pc' = "done"
  /\ UNCHANGED <<input, sb, params, calc, signature, content, result, preimage, claim>>
  /\ UNCHANGED <<dVars, tVars, kVars, gVars, fVars, uVars>>

Next ==
  \/ GetSignatureDer
  \/ ParseSignedData
  \/ CheckMessageDigest
  \/ CheckRsaSignature
  \/ VerifyAndExtract
  \/ VerifyText
  \/ VerifyPdfClaim
  \/ Commit

Spec == Init /\ [][Next]_vars

(* ------------------------------------------------------------------ *)
(* Properties of the circuit run                                        *)
(* ------------------------------------------------------------------ *)

IsSet(r) == r.err # "unset"

\* C1: verify_and_extract, verify_text and verify_pdf_claim never return Ok
\* with an invalid signature: when verify_pdf_signature yields
\* is_valid = false the call is an error, and every Ok result carries
\* signature.is_valid = true.
C1_NoOkWithInvalidSignature ==
  /\ (IsSet(content) /\ signature.ok /\ ~signature.val.is_valid)
       => (~content.ok /\ content.err = "signature verification failed")
  /\ content.ok => (signature.ok /\ content.val.signature.is_valid)
  /\ result.ok => (content.ok /\ result.val.signature.is_valid)
  /\ claim.ok => (result.ok /\ signature.val.is_valid)

C1_Witness ==
  /\ pc = "done"
  /\ signature.ok /\ ~signature.val.is_valid
  /\ ~content.ok /\ ~result.ok /\ ~claim.ok

\* the page text as raw bytes from `offset` on, compared with the bytes of
\* the substring
BytePrefixAt(bytes, offset, prefix) ==
  /\ offset <= Len(bytes)
  /\ StartsWith(SubSeq(bytes, offset + 1, Len(bytes)), prefix)

\* C2: for a validly signed PDF and an in-range page, substring_matches is
\* true exactly when the page text's bytes from `offset` on begin with the
\* UTF-8 bytes of the substring, for every offset and substring.
C2_SubstringMatchesIffBytePrefix ==
  result.ok =>
    (result.val.substring_matches
       <=> BytePrefixAt(Utf8(content.val.pages[input.page_number + 1]),
                        input.offset, Utf8(input.substring)))

\* C2 holds at every offset that is a character boundary of the page text.
C2_MatchesOnCharBoundaries ==
  (result.ok /\ IsCharBoundary(Utf8(content.val.pages[input.page_number + 1]),
                               input.offset))
    => (result.val.substring_matches
          <=> BytePrefixAt(Utf8(content.val.pages[input.page_number + 1]),
                           input.offset, Utf8(input.substring)))

\* C3: whenever verify_pdf_claim returns an error, main still commits, and
\* what it commits is the failure output: substringMatches = false and the
\* four hashes zero; no error leaves the run without a committed value.
C3_FailureOutputOnError ==
  /\ (pc = "done" /\ ~claim.ok)
       => committed = [i \in 1..(5 * HASH_LEN) |-> 0]
  /\ (pc = "done") => Len(committed) = 5 * HASH_LEN
  /\ (pc # "done") => pc \in {"get_signature_der", "parse_signed_data",
                              "check_message_digest", "check_rsa_signature",
                              "verify_and_extract", "verify_text",
                              "verify_pdf_claim", "commit"}

C3_Witness ==
  /\ pc = "done" /\ ~claim.ok /\ claim.err = "MessageDigestMismatch"
  /\ committed = [i \in 1..(5 * HASH_LEN) |-> 0]

\* C4: on success the nullifier is Keccak256 of a 119-byte preimage: the
\* 18-byte tag, Keccak256(message_digest), Keccak256(public key DER),
\* Keccak256(substring), the page number in one byte, the offset in four
\* bytes big-endian, in this order; the three hashes are also the outputs.
C4_NullifierPreimageLayout ==
  claim.ok =>
    LET out == claim.val
        sig == result.val.signature
    IN /\ Len(preimage) = 119
       /\ SubSeq(preimage, 1, 18)
            = <<122, 107, 112, 100, 102, 45, 110, 117, 108, 108, 105, 102,
                105, 101, 114, 45, 118, 48>>
       /\ SubSeq(preimage, 19, 50) = Keccak256(sig.message_digest)
       /\ SubSeq(preimage, 51, 82) = Keccak256(sig.public_key)
       /\ SubSeq(preimage, 83, 114) = Keccak256(Utf8(input.substring))
       /\ preimage[115] = input.page_number
       /\ preimage[116] * 16777216 + preimage[117] * 65536
            + preimage[118] * 256 + preimage[119] = input.offset
       /\ out.nullifier = Keccak256(preimage)
       /\ out.message_digest_hash = SubSeq(preimage, 19, 50)
       /\ out.signer_key_hash = SubSeq(preimage, 51, 82)
       /\ out.substring_hash = SubSeq(preimage, 83, 114)

C4_Witness ==
  /\ pc = "done" /\ claim.ok
  /\ input.page_number > 0 /\ input.offset > 0 /\ input.substring # <<>>
  /\ claim.val.nullifier = Keccak256(preimage)

\* C9: for a validly signed PDF, a page index at or past the number of
\* extracted pages makes verify_text an error, never substring_matches =
\* false.
C9_PageOutOfRangeIsError ==
  (IsSet(result) /\ content.ok /\ input.page_number >= Len(content.val.pages))
    => (~result.ok /\ result.err = "page out of bounds")

C9_Witness ==
  /\ pc = "done" /\ content.ok
  /\ Len(content.val.pages) > 0
  /\ input.page_number >= Len(content.val.pages)
  /\ ~result.ok

(* ------------------------------------------------------------------ *)
(* Properties of verify_pdf_signature                                   *)
(* ------------------------------------------------------------------ *)

\* CHECK 1 has run on a SignerInfo whose expected messageDigest is not
\* the digest of the signed bytes under the declared algorithm
DigestDiffers ==
  /\ IsSet(calc)
  /\ IsSome(params.val.signed_data_message_digest)
  /\ params.val.signed_data_message_digest[1]
       # ShaDigest(params.val.algorithm, sb.val.signed_data)

\* C11: whenever an expected messageDigest is present and differs from the
\* hash of the signed bytes under the declared digest algorithm,
\* verify_pdf_signature returns MessageDigestMismatch: the RSA check is not
\* reached and no PdfSignatureResult is produced.
C11_MismatchIsError ==
  DigestDiffers =>
    /\ calc = Err("MessageDigestMismatch")
    /\ signature = Err("MessageDigestMismatch")
    /\ pc # "check_rsa_signature"

C11_Witness ==
  /\ DigestDiffers
  /\ pc = "verify_and_extract"
  /\ signature = Err("MessageDigestMismatch")

\* CHECK 1 has passed: the RSA step is reached with these values
RsaReached == IsSet(calc) /\ calc.ok

\* the decoded SignerInfo of the file has signedAttrs
HasSignedAttrs == IsSome(FromDer(sb.val.signature_der).signed_attrs)

\* C12: without signedAttrs the digest passed to RSA verification is the
\* hash of the signed PDF bytes (`calculated`) and the expected
\* messageDigest is that same hash; with signedAttrs the digest passed is
\* the hash of their reconstructed DER.
C12_DigestPassedToRsa ==
  RsaReached =>
    IF HasSignedAttrs
    THEN digest_for_signature(params.val, calc.val)
           = ShaDigest(params.val.algorithm,
               extract_signed_attributes_der(FromDer(sb.val.signature_der))[1])
    ELSE /\ digest_for_signature(params.val, calc.val) = calc.val
         /\ params.val.signed_data_message_digest = Some(calc.val)

\* what the RSA step is given without signedAttrs: the hash of the
\* encapsulated content, which CHECK 1 has made equal to `calculated`
C12_DigestOfEncapsulatedContent ==
  (RsaReached /\ ~HasSignedAttrs) =>
    /\ params.val.signed_data_message_digest = Some(calc.val)
    /\ digest_for_signature(params.val, calc.val)
         = ShaDigest(params.val.algorithm, calc.val)

\* with signedAttrs the RSA step is given the hash of the rebuilt DER
C12_DigestOfSignedAttrs ==
  (RsaReached /\ HasSignedAttrs) =>
    digest_for_signature(params.val, calc.val)
      = ShaDigest(params.val.algorithm,
          extract_signed_attributes_der(FromDer(sb.val.signature_der))[1])

\* the RSA library has been called: the key was built and verify returned
RsaCalled ==
  RsaReached /\ IsSet(signature) /\ create_rsa_public_key(params.val).ok

\* what RsaPublicKey::verify returned in this run
RsaOutcome ==
  RsaVerify(create_rsa_public_key(params.val).val,
            get_pkcs1v15_padding(params.val.algorithm).val,
            digest_for_signature(params.val, calc.val), params.val.signature)

\* C17: the RSA step maps a successful PKCS#1 v1.5 check to Ok with
\* is_valid = true, the library's Verification error to Ok with
\* is_valid = false, and every other RSA error to the SignatureVerification
\* error, with no result.
C17_RsaOutcomeMapping ==
  RsaCalled =>
    CASE RsaOutcome = "ok" -> signature.ok /\ signature.val.is_valid
      [] RsaOutcome = "Verification" -> signature.ok /\ ~signature.val.is_valid
      [] OTHER -> signature = Err("SignatureVerification")

C17_Witness ==
  /\ RsaCalled
  /\ RsaOutcome \notin {"ok", "Verification"}
  /\ pc = "done" /\ signature = Err("SignatureVerification")

(* ------------------------------------------------------------------ *)
(* pdf-utils/extractor/src/lib.rs, parse_pdf: trailer, Root and Pages.  *)
(* The object table is a std HashMap keyed by (number, generation);     *)
(* `objects.values()` visits it in an order the program does not fix.   *)
(* An object is [kind, Type, Root, Pages, text]; Root and Pages are     *)
(* [tag, id] with tag "ref", "name", "dict" or "none".                  *)
(* ------------------------------------------------------------------ *)

MaxStreams == 2

Entry(tag, id) == [tag |-> tag, id |-> id]

NoEntry == Entry("none", 0)

StreamObj(type, root) ==
  [kind |-> "Stream", Type |-> type, Root |-> root, Pages |-> NoEntry, text |-> <<>>]

CatalogObj(pages) ==
  [kind |-> "Dictionary", Type |-> "Catalog", Root |-> NoEntry, Pages |-> pages,
   text |-> <<>>]

PagesObj(text) ==
  [kind |-> "Dictionary", Type |-> "Pages", Root |-> NoEntry, Pages |-> NoEntry,
   text |-> text]

NameObj ==
  [kind |-> "Name", Type |-> "none", Root |-> NoEntry, Pages |-> NoEntry, text |-> <<>>]

StreamIds == 1..MaxStreams

StreamShapes ==
  { StreamObj("XRef", Entry("ref", 11)), StreamObj("XRef", Entry("ref", 12)),
    StreamObj("XRef", Entry("ref", 13)), StreamObj("XRef", NoEntry),
    StreamObj("ObjStm", Entry("ref", 11)) }

CatalogShapes ==
  { CatalogObj(Entry("ref", 22)), CatalogObj(Entry("ref", 21)),
    CatalogObj(Entry("dict", 0)), CatalogObj(NoEntry) }

Trailers == { None } \cup { Some([Root |-> e]) :
                e \in {Entry("ref", 11), Entry("ref", 12), Entry("name", 0), NoEntry} }

ObjectTable(streams, catalog) ==
  [id \in StreamIds \cup {11, 12, 21, 22} |->
     IF id \in StreamIds THEN streams[id]
     ELSE IF id = 11 THEN CatalogObj(Entry("ref", 21))
     ELSE IF id = 12 THEN catalog
     ELSE IF id = 21 THEN PagesObj(<<72, 105>>)
     ELSE PagesObj(<<65, 8364>>)]

\* a file after its objects are parsed: the dictionary after a `trailer`
\* keyword, if the file has one, and the object table
Docs ==
  { [trailer |-> t, objects |-> ObjectTable(st, c)] :
      t \in Trailers, st \in [StreamIds -> StreamShapes], c \in CatalogShapes }

\* lines 582-588: a stream that can serve as the trailer dictionary
IsXRefWithRoot(obj) ==
  obj.kind = "Stream" /\ obj.Type = "XRef" /\ obj.Root.tag # "none"

\* traverse_pages from the Pages object: the page texts, or ParseError
PagesUnder(objects, id) ==
  IF id \in DOMAIN objects /\ objects[id].kind = "Dictionary"
     /\ objects[id].Type = "Pages"
  THEN Ok(<<objects[id].text>>)
  ELSE Err("ParseError")

\* lines 595-625
PagesFromTrailer(objects, trailer_dict) ==
  LET root == trailer_dict.Root
      root_obj == IF root.tag = "ref"
                  THEN IF root.id \in DOMAIN objects THEN Some(objects[root.id])
                       ELSE None
                  ELSE IF root.tag = "none" THEN None ELSE Some(NameObj)
  IN IF ~IsSome(root_obj) THEN Err("Root object not found")
     ELSE IF root_obj[1].kind # "Dictionary"
     THEN Err("Catalog object is not a dictionary")
     ELSE IF root_obj[1].Pages.tag = "ref"
     THEN PagesUnder(objects, root_obj[1].Pages.id)
     ELSE IF root_obj[1].Pages.tag = "dict"
     THEN Err("Pages object embedded in catalog is not supported")
     ELSE Err("Pages reference not found in Catalog")

Runs == {1, 2}

InitDet ==
  /\ dDoc \in Docs
  /\ dPc = [r \in Runs |-> "start"]
  /\ dRemaining = [r \in Runs |-> {}]
  /\ dTrailer = [r \in Runs |-> None]
  /\ dResult = [r \in Runs |-> Unset]
  /\ vOff /\ tOff /\ kOff /\ gOff /\ fOff /\ uOff

\* lines 556-579: the dictionary after `trailer`, or else the scan
FindTrailer(r) ==
  /\ dPc[r] = "start"
  /\ r = 1 \/ dPc[1] = "done"
  /\ IF IsSome(dDoc.trailer)
     THEN /\ dTrailer' = [dTrailer EXCEPT ![r] = dDoc.trailer]
          /\ dPc' = [dPc EXCEPT ![r] = "root"]
          /\ UNCHANGED dRemaining
     ELSE /\ dRemaining' = [dRemaining EXCEPT ![r] = DOMAIN dDoc.objects]
          /\ dPc' = [dPc EXCEPT ![r] = "scan"]
          /\ UNCHANGED dTrailer
  /\ UNCHANGED <<dDoc, dResult>>
  /\ UNCHANGED <<vVars, tVars, kVars, gVars, fVars, uVars>>

\* lines 581-592: one turn of `for obj in objects.values()`
ScanNext(r) ==
  /\ dPc[r] = "scan"
  /\ \E k \in dRemaining[r] :
       IF IsXRefWithRoot(dDoc.objects[k])
       THEN /\ dTrailer' = [dTrailer EXCEPT ![r] = Some([Root |-> dDoc.objects[k].Root])]
            /\ dPc' = [dPc EXCEPT ![r] = "root"]
            /\ dRemaining' = [dRemaining EXCEPT ![r] = {}]
       ELSE /\ dRemaining' = [dRemaining EXCEPT ![r] = @ \ {k}]
            /\ UNCHANGED <<dTrailer, dPc>>
  /\ UNCHANGED <<dDoc, dResult>>
  /\ UNCHANGED <<vVars, tVars, kVars, gVars, fVars, uVars>>

\* line 593: no stream qualified
ScanEnd(r) ==
  /\ dPc[r] = "scan"
  /\ dRemaining[r] = {}
  /\ dResult' = [dResult EXCEPT ![r] = Err("Trailer dictionary not found")]
  /\ dPc' = [dPc EXCEPT ![r] = "done"]
  /\ UNCHANGED <<dDoc, dRemaining, dTrailer>>
  /\ UNCHANGED <<vVars, tVars, kVars, gVars, fVars, uVars>>

\* lines 595-625
ResolveRoot(r) ==
  /\ dPc[r] = "root"
  /\ dResult' = [dResult EXCEPT ![r] = PagesFromTrailer(dDoc.objects, dTrailer[r][1])]
  /\ dPc' = [dPc EXCEPT ![r] = "done"]
  /\ UNCHANGED <<dDoc, dRemaining, dTrailer>>
  /\ UNCHANGED <<vVars, tVars, kVars, gVars, fVars, uVars>>

NextDet ==
  \/ \E r \in Runs : FindTrailer(r)
  \/ \E r \in Runs : ScanNext(r)
  \/ \E r \in Runs : ScanEnd(r)
  \/ \E r \in Runs : ResolveRoot(r)

SpecDet == InitDet /\ [][NextDet]_vars

QualifyingStreams == {k \in DOMAIN dDoc.objects : IsXRefWithRoot(dDoc.objects[k])}

\* C5: two executions of parse_pdf on the same bytes give the same result,
\* also for a file without a `trailer` keyword that holds more than one
\* /Type /XRef stream with a /Root entry.
C5_TwoRunsAgree ==
  (dPc[1] = "done" /\ dPc[2] = "done") => dResult[1] = dResult[2]

\* With a `trailer` keyword, or at most one stream that qualifies, the two
\* executions agree.
C5_AgreeWithOneCandidate ==
  (dPc[1] = "done" /\ dPc[2] = "done"
     /\ (IsSome(dDoc.trailer) \/ Cardinality(QualifyingStreams) <= 1))
    => dResult[1] = dResult[2]

(* ------------------------------------------------------------------ *)
(* verify_pdf_signature on a validly signed file after one byte inside  *)
(* a ByteRange segment has been changed                                 *)
(* ------------------------------------------------------------------ *)

\* the 0-based positions the ByteRange of a file covers
SegmentPositions(pdf_bytes) ==
  LET br == parse_byte_range(pdf_bytes).val
  IN {p \in 0..(Len(pdf_bytes) - 1) :
        \/ br.offset1 <= p /\ p < br.offset1 + br.len1
        \/ br.offset2 <= p /\ p < br.offset2 + br.len2}

\* replacement bytes: NUL, VT, space, "+", "/", digits, "<", ">", "A", "[",
\* "]" and a byte that is not UTF-8
TamperBytes == {0, 11, 32, 43, 47, 48, 49, 51, 57, 60, 62, 65, 91, 93, 200}

TamperedInput(pdf_bytes) ==
  [pdf |-> [bytes |-> pdf_bytes, body |-> Ok(<<>>)], page_number |-> 0,
   offset |-> 0, substring |-> <<>>]

InitTamper ==
  /\ tPc = "original"
  /\ tSample \in SampleIds
  /\ tPos = 0
  /\ tByte = 0
  /\ pc = "get_signature_der"
  /\ input = TamperedInput(SampleFile(tSample))
  /\ vIdle
  /\ dOff /\ kOff /\ gOff /\ fOff /\ uOff

\* a file that verified with is_valid = true gets one byte of a segment
\* replaced, and verify_pdf_signature runs again on the result
Tamper ==
  /\ tPc = "original"
  /\ pc = "verify_and_extract"
  /\ signature.ok /\ signature.val.is_valid
  /\ \E p \in SegmentPositions(input.pdf.bytes), b \in TamperBytes :
       /\ b # input.pdf.bytes[p + 1]
       /\ input' = TamperedInput([input.pdf.bytes EXCEPT ![p + 1] = b])
       /\ tPos' = p
       /\ tByte' = b
  /\ tPc' = "tampered"
  /\ pc' = "get_signature_der"
  /\ sb' = Unset /\ params' = Unset /\ calc' = Unset /\ signature' = Unset
  /\ UNCHANGED <<tSample, content, result, preimage, claim, committed>>
  /\ UNCHANGED <<dVars, kVars, gVars, fVars, uVars>>

NextTamper ==
  \/ Tamper
  \/ GetSignatureDer
  \/ ParseSignedData
  \/ CheckMessageDigest
  \/ CheckRsaSignature

SpecTamper == InitTamper /\ [][NextTamper]_vars

\* verify_pdf_signature has returned for the tampered file
TamperVerified == tPc = "tampered" /\ pc = "verify_and_extract"

\* C6: after one byte inside a ByteRange segment of a validly signed file
\* is changed, verify_pdf_signature never returns is_valid = true for the
\* changed file.
C6_TamperedNeverValid ==
  TamperVerified => ~(signature.ok /\ signature.val.is_valid)

\* the /ByteRange keyword and its array lie inside one segment of the file
ArrayIsSigned(pdf_bytes) ==
  LET br == parse_byte_range(pdf_bytes).val
      first == MinOf(Positions(pdf_bytes, KW_BYTERANGE))
      last == MinOf(BytePositionsFrom(pdf_bytes, first, 93))
  IN \/ br.offset1 <= first /\ last < br.offset1 + br.len1
     \/ br.offset2 <= first /\ last < br.offset2 + br.len2

\* A file whose /ByteRange array is itself signed is rejected after the
\* change, with MessageDigestMismatch or, when the changed byte belongs to
\* the /ByteRange or /Contents syntax, with an error of the signed-bytes
\* extraction.
C6_SignedArrayFilesRejected ==
  (TamperVerified /\ ArrayIsSigned(SampleFile(tSample))) =>
    /\ ~signature.ok
    /\ signature.err \in {"MessageDigestMismatch", "ByteRangeNotFound",
                          "ByteRangeStartMissing", "ByteRangeEndMissing",
                          "InvalidByteRangeUtf8", "InvalidByteRangeCount",
                          "ByteRangeOutOfBounds", "ContentsNotFound"}

(* ------------------------------------------------------------------ *)
(* pdf-utils/extractor: parser_utils.rs and parse_content_tokens.       *)
(* Indices are the source's 0-based indices: data[i] is At(data, i).    *)
(* A token is [type, val].                                              *)
(* ------------------------------------------------------------------ *)

At(data, i) == data[i + 1]

Tok(type, val) == [type |-> type, val |-> val]

is_delimiter(b) == b \in {40, 41, 60, 62, 91, 93, 123, 125, 47, 37}

hex_value(c) ==
  IF c \in 48..57 THEN Some(c - 48)
  ELSE IF c \in 97..102 THEN Some(10 + c - 97)
  ELSE IF c \in 65..70 THEN Some(10 + c - 65)
  ELSE None

\* String::from_utf8_lossy, for bytes that are ASCII or not UTF-8 at all
Utf8Lossy(bytes) == [j \in 1..Len(bytes) |-> IF bytes[j] < 128 THEN bytes[j] ELSE 65533]

\* the octal digits of an escape: at most three, from index i
RECURSIVE OctalLoop(_, _, _, _)
OctalLoop(data, i, octal, count) ==
  IF count < 3 /\ i < Len(data) /\ At(data, i) \in 48..55
  THEN OctalLoop(data, i + 1, octal * 8 + (At(data, i) - 48), count + 1)
  ELSE [octal |-> octal, i |-> i]

\* the `while i < data.len()` loop of parse_literal_string
RECURSIVE LiteralLoop(_, _, _, _)
LiteralLoop(data, i, nesting, acc) ==
  IF i >= Len(data) THEN [bytes |-> acc, new_index |-> i]
  ELSE LET byte == At(data, i)
       IN IF byte = 40 THEN LiteralLoop(data, i + 1, nesting + 1, Append(acc, byte))
          ELSE IF byte = 41
          THEN IF nesting = 0 THEN [bytes |-> acc, new_index |-> i + 1]
               ELSE LiteralLoop(data, i + 1, nesting - 1, Append(acc, byte))
          ELSE IF byte # 92 THEN LiteralLoop(data, i + 1, nesting, Append(acc, byte))
          ELSE IF i + 1 >= Len(data) THEN [bytes |-> acc, new_index |-> i + 1]
          ELSE LET next == At(data, i + 1)
               IN IF next = 110 THEN LiteralLoop(data, i + 2, nesting, Append(acc, 10))
                  ELSE IF next = 114 THEN LiteralLoop(data, i + 2, nesting, Append(acc, 13))
                  ELSE IF next = 116 THEN LiteralLoop(data, i + 2, nesting, Append(acc, 9))
                  ELSE IF next = 98 THEN LiteralLoop(data, i + 2, nesting, Append(acc, 8))
                  ELSE IF next = 102 THEN LiteralLoop(data, i + 2, nesting, Append(acc, 12))
                  ELSE IF next = 13
                  THEN LiteralLoop(data,
                                   IF i + 2 < Len(data) /\ At(data, i + 2) = 10
                                   THEN i + 3 ELSE i + 2,
                                   nesting, acc)
                  ELSE IF next = 10 THEN LiteralLoop(data, i + 2, nesting, acc)
                  ELSE IF next \in 48..55
                  THEN LET o == OctalLoop(data, i + 1, 0, 0)
                       IN LiteralLoop(data, o.i, nesting, Append(acc, o.octal % 256))
                  ELSE LiteralLoop(data, i + 2, nesting, Append(acc, next))

parse_literal_string(data, start_index) == LiteralLoop(data, start_index + 1, 0, <<>>)

\* the loop of parse_hex_string and the trailing nibble
RECURSIVE HexLoop(_, _, _, _)
HexLoop(data, i, nibble, acc) ==
  LET finish(at) == [bytes |-> IF IsSome(nibble) THEN Append(acc, nibble[1] * 16)
                               ELSE acc,
                     new_index |-> at]
  IN IF i >= Len(data) THEN finish(i)
     ELSE LET byte == At(data, i)
          IN IF byte = 62 THEN finish(i + 1)
             ELSE IF IsAsciiWhitespace(byte) THEN HexLoop(data, i + 1, nibble, acc)
             ELSE IF ~IsSome(hex_value(byte)) THEN HexLoop(data, i + 1, nibble, acc)
             ELSE IF IsSome(nibble)
             THEN HexLoop(data, i + 1, None,
                          Append(acc, nibble[1] * 16 + hex_value(byte)[1]))
             ELSE HexLoop(data, i + 1, hex_value(byte), acc)

parse_hex_string(data, start_index) == HexLoop(data, start_index + 1, None, <<>>)

\* the first index from i on that holds whitespace or a delimiter
RECURSIVE RegularEnd(_, _)
RegularEnd(data, i) ==
  IF i < Len(data) /\ ~IsAsciiWhitespace(At(data, i)) /\ ~is_delimiter(At(data, i))
  THEN RegularEnd(data, i + 1)
  ELSE i

parse_name(data, start_index) ==
  LET i == RegularEnd(data, start_index + 1)
  IN [name |-> Utf8Lossy(Slice(data, start_index + 1, i)), new_index |-> i]

RECURSIVE DigitsEnd(_, _)
DigitsEnd(data, i) ==
  IF i < Len(data) /\ IsAsciiDigit(At(data, i)) THEN DigitsEnd(data, i + 1) ELSE i

\* the decimal value of a run of digits, most significant first
RECURSIVE DecimalValue(_)
DecimalValue(digits) ==
  IF digits = <<>> THEN 0
  ELSE DecimalValue(SubSeq(digits, 1, Len(digits) - 1)) * 10
         + (digits[Len(digits)] - 48)

\* parse_number: sign, digits, ".", digits; the value is the sign, the
\* integer part and the fraction digits of the parsed text, 0 when the text
\* has no digit
parse_number(data, start_index) ==
  LET i1 == IF At(data, start_index) \in {43, 45} THEN start_index + 1 ELSE start_index
      i2 == DigitsEnd(data, i1)
      i3 == IF i2 < Len(data) /\ At(data, i2) = 46 THEN i2 + 1 ELSE i2
      i4 == DigitsEnd(data, i3)
      int == Slice(data, i1, i2)
      frac == Slice(data, i3, i4)
      parsed == int # <<>> \/ frac # <<>>
  IN [number |-> [negative |-> parsed /\ At(data, start_index) = 45,
                  int |-> DecimalValue(int),
                  frac |-> IF parsed THEN frac ELSE <<>>],
      new_index |-> i4]

\* fold_array_tokens: ArrayStart .. ArrayEnd become one Array token
RECURSIVE fold_array_tokens(_), FoldFrom(_, _, _), CollectArray(_, _, _, _)
CollectArray(tokens, i, depth, arr_elems) ==
  IF ~(i < Len(tokens) /\ depth > 0) THEN [arr_elems |-> arr_elems, i |-> i]
  ELSE LET d == IF At(tokens, i).type = "ArrayStart" THEN depth + 1
                ELSE IF At(tokens, i).type = "ArrayEnd" THEN depth - 1
                ELSE depth
       IN IF d = 0 THEN [arr_elems |-> arr_elems, i |-> i]
          ELSE CollectArray(tokens, i + 1, d, Append(arr_elems, At(tokens, i)))

FoldFrom(tokens, i, acc) ==
  IF i >= Len(tokens) THEN acc
  ELSE IF At(tokens, i).type = "ArrayStart"
  THEN LET c == CollectArray(tokens, i + 1, 1, <<>>)
       IN FoldFrom(tokens, c.i + 1,
                   Append(acc, Tok("Array", fold_array_tokens(c.arr_elems))))
  ELSE FoldFrom(tokens, i + 1, Append(acc, At(tokens, i)))

fold_array_tokens(tokens) == FoldFrom(tokens, 0, <<>>)

\* lines 687-698: the index after an inline dictionary << ... >>
RECURSIVE InlineDictEnd(_, _, _)
InlineDictEnd(data, i, depth) ==
  IF ~(i < Len(data) /\ depth > 0) THEN i
  ELSE IF i + 1 < Len(data) /\ Slice(data, i, i + 2) = <<60, 60>>
  THEN InlineDictEnd(data, i + 2, depth + 1)
  ELSE IF i + 1 < Len(data) /\ Slice(data, i, i + 2) = <<62, 62>>
  THEN InlineDictEnd(data, i + 2, depth - 1)
  ELSE InlineDictEnd(data, i + 1, depth)

\* lines 711-713: the index of the line end that closes a comment
RECURSIVE CommentEnd(_, _)
CommentEnd(data, i) ==
  IF i < Len(data) /\ At(data, i) # 13 /\ At(data, i) # 10
  THEN CommentEnd(data, i + 1)
  ELSE i

MaxLen == 3

\* the Vec of tokens is cut off here; every input that is tokenized to the
\* end gives at most one token per byte
MaxTokens == MaxLen + 2

\* space, LF, ( ) < > [ ] { } / % 1 T and backslash
ContentBytes == {32, 10, 40, 41, 60, 62, 91, 93, 123, 125, 47, 37, 49, 84, 92}

RECURSIVE SeqsUpTo(_, _)
SeqsUpTo(S, n) ==
  IF n = 0 THEN {<<>>}
  ELSE LET shorter == SeqsUpTo(S, n - 1)
       IN shorter \cup {Append(q, b) : q \in {r \in shorter : Len(r) = n - 1}, b \in S}

InitTok ==
  /\ kPc = "loop"
  /\ kData \in SeqsUpTo(ContentBytes, MaxLen)
  /\ kI = 0
  /\ kTokens = <<>>
  /\ vOff /\ dOff /\ tOff /\ gOff /\ fOff /\ uOff

\* `while i < data.len()` with the byte the match looks at
AtByte(bytes) == kPc = "loop" /\ kI < Len(kData) /\ At(kData, kI) \in bytes

Step(new_index, tokens) ==
  /\ kI' = new_index
  /\ kTokens' = tokens
  /\ UNCHANGED <<kPc, kData>>
  /\ UNCHANGED <<vVars, dVars, tVars, gVars, fVars, uVars>>

TokWhitespace == AtByte({32, 9, 13, 10, 12}) /\ Step(kI + 1, kTokens)

TokArrayStart == AtByte({91}) /\ Step(kI + 1, Append(kTokens, Tok("ArrayStart", <<>>)))

TokArrayEnd == AtByte({93}) /\ Step(kI + 1, Append(kTokens, Tok("ArrayEnd", <<>>)))

TokLiteralString ==
  /\ AtByte({40})
  /\ LET r == parse_literal_string(kData, kI)
     IN Step(r.new_index, Append(kTokens, Tok("String", r.bytes)))

TokInlineDict ==
  /\ AtByte({60})
  /\ kI + 1 < Len(kData) /\ At(kData, kI + 1) = 60
  /\ Step(InlineDictEnd(kData, kI + 2, 1), kTokens)

TokHexString ==
  /\ AtByte({60})
  /\ ~(kI + 1 < Len(kData) /\ At(kData, kI + 1) = 60)
  /\ LET r == parse_hex_string(kData, kI)
     IN Step(r.new_index, Append(kTokens, Tok("String", r.bytes)))

TokName ==
  /\ AtByte({47})
  /\ LET r == parse_name(kData, kI)
     IN Step(r.new_index, Append(kTokens, Tok("Name", r.name)))

TokComment == AtByte({37}) /\ Step(CommentEnd(kData, kI), kTokens)

TokNumber ==
  /\ AtByte({43, 45, 46} \cup 48..57)
  /\ LET r == parse_number(kData, kI)
     IN Step(r.new_index, Append(kTokens, Tok("Number", r.number)))

\* lines 719-728: the `_` arm
TokOperator ==
  /\ AtByte(0..255 \ ({32, 9, 13, 10, 12, 91, 93, 40, 60, 47, 37, 43, 45, 46}
                       \cup 48..57))
  /\ Len(kTokens) < MaxTokens
  /\ LET i == RegularEnd(kData, kI)
     IN Step(i, IF IsUtf8(Slice(kData, kI, i))
                THEN Append(kTokens, Tok("Operator", Slice(kData, kI, i)))
                ELSE kTokens)

\* line 731
TokFold ==
  /\ kPc = "loop" /\ kI >= Len(kData)
  /\ kTokens' = fold_array_tokens(kTokens)
  /\ kPc' = "done"
  /\ UNCHANGED <<kData, kI>>
  /\ UNCHANGED <<vVars, dVars, tVars, gVars, fVars, uVars>>

NextTok ==
  \/ TokWhitespace
  \/ TokArrayStart
  \/ TokArrayEnd
  \/ TokLiteralString
  \/ TokInlineDict
  \/ TokHexString
  \/ TokName
  \/ TokComment
  \/ TokNumber
  \/ TokOperator
  \/ TokFold

SpecTok == InitTok /\ [][NextTok]_vars

\* C7: every iteration of the loop of parse_content_tokens advances the
\* read index, also at a stray ")", ">", "{" or "}", so that the function
\* returns a finite token list.
C7_EveryIterationAdvances ==
  [][(kPc = "loop" /\ kPc' = "loop") => kI' > kI]_vars

\* An iteration that looks at any other byte advances the read index.
C7_AdvancesOffStrayDelimiters ==
  [][(kPc = "loop" /\ kPc' = "loop" /\ At(kData, kI) \notin {41, 62, 123, 125})
       => kI' > kI]_vars

\* At a stray delimiter an iteration leaves the index where it is and
\* pushes one more empty operator.
C7_StrayDelimiterRepeats ==
  [][(kPc = "loop" /\ kPc' = "loop" /\ At(kData, kI) \in {41, 62, 123, 125})
       => (kI' = kI /\ kTokens' = Append(kTokens, Tok("Operator", <<>>)))]_vars

(* ------------------------------------------------------------------ *)
(* pdf-utils/extractor/src/lib.rs, traverse_pages.                      *)
(* A node of the object table is [kind, kids]; a kid is [tag, id]: a    *)
(* reference, an inline /Page or /Pages dictionary, or something else.  *)
(* gStack holds one frame per traverse_pages call that is iterating     *)
(* its /Kids.                                                           *)
(* ------------------------------------------------------------------ *)

MaxObj == 3

MaxKids == 2

Node(kind, kids) == [kind |-> kind, kids |-> kids]

NodeIds == 1..MaxObj

\* references to the objects and to one object that does not exist, an
\* inline /Page, an inline /Pages
KidEntries ==
  {Entry("ref", id) : id \in 1..(MaxObj + 1)}
    \cup {Entry("page", 0), Entry("pages", 0)}

RootShapes ==
  {Node("Pages", kids) : kids \in SeqsUpTo(KidEntries, MaxKids)}
    \cup {Node("Page", <<>>), Node("PagesNoKids", <<>>), Node("Other", <<>>)}

InnerShapes ==
  {Node("Pages", kids) : kids \in SeqsUpTo(KidEntries, 1)}
    \cup {Node("Page", <<>>), Node("Other", <<>>)}

ObjectTables ==
  {[id \in NodeIds |-> IF id = 1 THEN root ELSE inner[id]] :
     root \in RootShapes, inner \in [NodeIds -> InnerShapes]}

InitPages ==
  /\ gPc = "call"
  /\ gObjects \in ObjectTables
  /\ gCall = 1
  /\ gStack = <<>>
  /\ gPages = <<>>
  /\ vOff /\ dOff /\ tOff /\ kOff /\ fOff /\ uOff

\* where a call that is over hands control: the caller's loop, or the end
AfterReturn(stack) == IF stack = <<>> THEN "ok" ELSE "loop"

\* lines 77-83 and 151-178: a call that ends in an error, which `?` hands
\* up through every caller
EnterError ==
  /\ gPc = "call"
  /\ \/ gCall \notin DOMAIN gObjects
     \/ /\ gCall \in DOMAIN gObjects
        /\ gObjects[gCall].kind \in {"PagesNoKids", "Other"}
  /\ gPc' = "err"
  /\ UNCHANGED <<gObjects, gCall, gStack, gPages>>
  /\ UNCHANGED <<vVars, dVars, tVars, kVars, fVars, uVars>>

\* lines 151-152: a /Page, handed to process_page_dict
EnterPage ==
  /\ gPc = "call"
  /\ gCall \in DOMAIN gObjects /\ gObjects[gCall].kind = "Page"
  /\ gPages' = Append(gPages, gCall)
  /\ gPc' = AfterReturn(gStack)
  /\ UNCHANGED <<gObjects, gCall, gStack>>
  /\ UNCHANGED <<vVars, dVars, tVars, kVars, fVars, uVars>>

\* lines 87-115: a /Pages node starts the loop over its /Kids
EnterPages ==
  /\ gPc = "call"
  /\ gCall \in DOMAIN gObjects /\ gObjects[gCall].kind = "Pages"
  /\ Len(gStack) < MaxObj
  /\ gStack' = Append(gStack, [id |-> gCall, kids |-> gObjects[gCall].kids])
  /\ gPc' = "loop"
  /\ UNCHANGED <<gObjects, gCall, gPages>>
  /\ UNCHANGED <<vVars, dVars, tVars, kVars, fVars, uVars>>

\* the same, with more calls already open than there are objects: the
\* call stack of the process is what ends the nesting
StackExhausted ==
  /\ gPc = "call"
  /\ gCall \in DOMAIN gObjects /\ gObjects[gCall].kind = "Pages"
  /\ Len(gStack) >= MaxObj
  /\ gPc' = "abort"
  /\ UNCHANGED <<gObjects, gCall, gStack, gPages>>
  /\ UNCHANGED <<vVars, dVars, tVars, kVars, fVars, uVars>>

TopKid == Head(gStack[Len(gStack)].kids)

PopKid == [gStack EXCEPT ![Len(gStack)].kids = Tail(@)]

HasKid == gPc = "loop" /\ gStack[Len(gStack)].kids # <<>>

\* lines 118-126: a kid that is a reference
KidReference ==
  /\ HasKid /\ TopKid.tag = "ref"
  /\ gCall' = TopKid.id
  /\ gStack' = PopKid
  /\ gPc' = "call"
  /\ UNCHANGED <<gObjects, gPages>>
  /\ UNCHANGED <<vVars, dVars, tVars, kVars, fVars, uVars>>

\* lines 128-137: an inline /Page dictionary
KidPageDict ==
  /\ HasKid /\ TopKid.tag = "page"
  /\ gPages' = Append(gPages, 0)
  /\ gStack' = PopKid
  /\ UNCHANGED <<gPc, gObjects, gCall>>
  /\ UNCHANGED <<vVars, dVars, tVars, kVars, fVars, uVars>>

\* lines 138-146: an inline /Pages dictionary, traverse_pages((0, 0))
KidPagesDict ==
  /\ HasKid /\ TopKid.tag = "pages"
  /\ gCall' = 0
  /\ gStack' = PopKid
  /\ gPc' = "call"
  /\ UNCHANGED <<gObjects, gPages>>
  /\ UNCHANGED <<vVars, dVars, tVars, kVars, fVars, uVars>>

\* line 179: the loop is over, the call returns Ok(())
ReturnOk ==
  /\ gPc = "loop" /\ gStack[Len(gStack)].kids = <<>>
  /\ gStack' = SubSeq(gStack, 1, Len(gStack) - 1)
  /\ gPc' = AfterReturn(gStack')
  /\ UNCHANGED <<gObjects, gCall, gPages>>
  /\ UNCHANGED <<vVars, dVars, tVars, kVars, fVars, uVars>>

NextPages ==
  \/ EnterError
  \/ EnterPage
  \/ EnterPages
  \/ StackExhausted
  \/ KidReference
  \/ KidPageDict
  \/ KidPagesDict
  \/ ReturnOk

SpecPages == InitPages /\ [][NextPages]_vars

\* the objects of the calls that are open
OpenNodes == {gStack[j].id : j \in 1..Len(gStack)}

\* C8: traverse_pages returns Ok or ParseError for every object table,
\* also when the /Kids of a /Pages node lead back to the node or to an
\* ancestor: no node is entered again while its own call is open, and the
\* nesting never runs into the call stack.
C8_TraversalIsCut ==
  /\ Cardinality(OpenNodes) = Len(gStack)
  /\ gPc # "abort"

\* Every call is answered when no /Kids leads back to an open node: the
\* nesting only exceeds the number of objects on a cycle.
C8_AbortOnlyOnCycle ==
  (gPc = "abort") => Cardinality(OpenNodes \cup {gCall}) <= Len(gStack)

(* ------------------------------------------------------------------ *)
(* pdf-utils/extractor/src/lib.rs, extract_text_from_page and the `Do`  *)
(* arm of extract_from_tokens.                                          *)
(* A content stream is a sequence of operators: "Do" with the object    *)
(* its name resolves to, or another operator. fStack holds one frame    *)
(* per extract_from_tokens call with the tokens it has left; the page   *)
(* is frame 0. fLog records which forms were interpreted and which `Do` *)
(* were passed over, in order, with the form the `Do` stood in.         *)
(* ------------------------------------------------------------------ *)

MaxForms == 2

FormIds == 1..MaxForms

Do(id) == [op |-> "Do", id |-> id]

OtherOp == [op |-> "Tj", id |-> 0]

XObject(subtype, ops) == [subtype |-> subtype, ops |-> ops]

FormShapes ==
  {XObject("Form", ops) : ops \in SeqsUpTo({Do(id) : id \in FormIds}, 2)}
    \cup {XObject("Form", <<OtherOp>>), XObject("Image", <<>>)}

\* the page invokes forms, and in one case an object that does not exist
PageContents ==
  SeqsUpTo({Do(id) : id \in FormIds}, 2) \cup {<<Do(MaxForms + 1), Do(1)>>}

InitForm ==
  /\ fPc = "run"
  /\ fForms \in [FormIds -> FormShapes]
  /\ \E ops \in PageContents : fStack = <<[id |-> 0, ops |-> ops]>>
  /\ fVisited = {}
  /\ fLog = <<>>
  /\ vOff /\ dOff /\ tOff /\ kOff /\ gOff /\ uOff

\* the set without the form, which is what visited.remove keeps
visited_kept(visited, id) == visited

\* lines 972-976: visited.remove(&id_visited)
visited_remove(visited, id) == visited \ {id}

TopFrame == fStack[Len(fStack)]

TopOp == Head(TopFrame.ops)

\* `i += 1` in the call on top
Advance == [fStack EXCEPT ![Len(fStack)].ops = Tail(@)]

AtOp == fPc = "run" /\ fStack # <<>> /\ TopFrame.ops # <<>>

\* lines 850-879: the entry resolves to a stream with /Subtype /Form
IsForm(id) == id \in DOMAIN fForms /\ fForms[id].subtype = "Form"

\* lines 934-970: insert succeeds, the form's tokens are interpreted
DoForm ==
  /\ AtOp /\ TopOp.op = "Do"
  /\ IsForm(TopOp.id) /\ TopOp.id \notin fVisited
  /\ fVisited' = fVisited \cup {TopOp.id}
  /\ fStack' = Append(Advance, [id |-> TopOp.id, ops |-> fForms[TopOp.id].ops])
  /\ fLog' = Append(fLog, [ev |-> "enter", id |-> TopOp.id, from |-> TopFrame.id])
  /\ UNCHANGED <<fPc, fForms>>
  /\ UNCHANGED <<vVars, dVars, tVars, kVars, gVars, uVars>>

\* lines 934-941: insert finds the form in the set, should_recurse = false
DoVisited ==
  /\ AtOp /\ TopOp.op = "Do"
  /\ IsForm(TopOp.id) /\ TopOp.id \in fVisited
  /\ fStack' = Advance
  /\ fLog' = Append(fLog, [ev |-> "skip", id |-> TopOp.id, from |-> TopFrame.id])
  /\ UNCHANGED <<fPc, fForms, fVisited>>
  /\ UNCHANGED <<vVars, dVars, tVars, kVars, gVars, uVars>>

\* lines 850-879: no stream, or not a form
DoNotForm ==
  /\ AtOp /\ TopOp.op = "Do"
  /\ ~IsForm(TopOp.id)
  /\ fStack' = Advance
  /\ UNCHANGED <<fPc, fForms, fVisited, fLog>>
  /\ UNCHANGED <<vVars, dVars, tVars, kVars, gVars, uVars>>

\* line 986: another operator
OtherOperator ==
  /\ AtOp /\ TopOp.op # "Do"
  /\ fStack' = Advance
  /\ UNCHANGED <<fPc, fForms, fVisited, fLog>>
  /\ UNCHANGED <<vVars, dVars, tVars, kVars, gVars, uVars>>

\* lines 972-976: the nested call is over
FormReturn ==
  /\ fPc = "run" /\ Len(fStack) > 1 /\ TopFrame.ops = <<>>
  /\ fVisited' = visited_remove(fVisited, TopFrame.id)
  /\ fStack' = SubSeq(fStack, 1, Len(fStack) - 1)
  /\ UNCHANGED <<fPc, fForms, fLog>>
  /\ UNCHANGED <<vVars, dVars, tVars, kVars, gVars, uVars>>

\* extract_text_from_page, lines 53-60: the call for the page is over
PageDone ==
  /\ fPc = "run" /\ Len(fStack) = 1 /\ TopFrame.ops = <<>>
  /\ fStack' = <<>>
  /\ fPc' = "done"
  /\ UNCHANGED <<fForms, fVisited, fLog>>
  /\ UNCHANGED <<vVars, dVars, tVars, kVars, gVars, uVars>>

NextForm ==
  \/ DoForm
  \/ DoVisited
  \/ DoNotForm
  \/ OtherOperator
  \/ FormReturn
  \/ PageDone

SpecForm == InitForm /\ [][NextForm]_vars

\* the interpreter is one sequential call: it always takes its next step
SpecFormFair == SpecForm /\ WF_vars(NextForm)

\* the forms whose interpretation is open
OpenForms == {fStack[j].id : j \in 2..Len(fStack)}

\* C10: the visited set is the set of forms on the current recursion
\* path: a form is in it from the moment its content is interpreted until
\* that interpretation returns; a form on the path is not entered again,
\* a form off the path is entered at every `Do`, also a second time, and
\* the set is empty when the page is finished, which every page is, also
\* one whose forms invoke themselves or each other.
C10_VisitedIsRecursionPath ==
  /\ [](/\ fVisited = OpenForms
        /\ Cardinality(OpenForms) = IF fStack = <<>> THEN 0 ELSE Len(fStack) - 1
        /\ (fPc = "done" => fVisited = {}))
  /\ [][/\ (AtOp /\ TopOp.op = "Do" /\ IsForm(TopOp.id) /\ TopOp.id \in OpenForms)
             => (fStack' = Advance /\ fVisited' = fVisited)
        /\ (AtOp /\ TopOp.op = "Do" /\ IsForm(TopOp.id) /\ TopOp.id \notin OpenForms)
             => (Len(fStack') = Len(fStack) + 1
                 /\ fStack'[Len(fStack')].id = TopOp.id
                 /\ fVisited' = fVisited \cup {TopOp.id})]_vars
  /\ <>(fPc = "done")

\* the page, or the forms, whose `Do` made the form be interpreted
EnteredFrom(id) ==
  {fLog[j].from : j \in {k \in 1..Len(fLog) : fLog[k].ev = "enter" /\ fLog[k].id = id}}

\* a page is finished on which one form was interpreted on two branches
\* and a `Do` of a form on the path was passed over
C10_Witness ==
  /\ fPc = "done" /\ fVisited = {}
  /\ \E id \in FormIds : Cardinality(EnteredFrom(id)) >= 2
  /\ \E j \in 1..Len(fLog) : fLog[j].ev = "skip"

(* ------------------------------------------------------------------ *)
(* pkcs7_parser.rs, extract_signed_attributes_der on signedAttrs of     *)
(* many lengths. The call is given the decoded SignerInfo and returns   *)
(* the rebuilt SET, if there are signedAttrs.                           *)
(* ------------------------------------------------------------------ *)

MaxSmallLen == 20

\* content lengths: the short ones and those around each change of the
\* length header
AttrLengths ==
  0..MaxSmallLen \cup {127, 128, 129, 255, 256, 257, 65535, 65536, 65537}

AttrFills == {0, 49, 255}

SignerInfos ==
  {[signed_attrs |-> Some([content |-> [i \in 1..n |-> b], message_digest |-> None])] :
     n \in AttrLengths, b \in AttrFills}
    \cup {[signed_attrs |-> None]}

InitAttrs ==
  /\ uFn = "extract_signed_attributes_der"
  /\ uArg \in SignerInfos
  /\ uRet = <<>>
  /\ vOff /\ dOff /\ tOff /\ kOff /\ gOff /\ fOff

\* lines 157-182
ExtractSignedAttributesDer ==
  /\ uFn = "extract_signed_attributes_der"
  /\ uRet' = extract_signed_attributes_der(uArg)
  /\ uFn' = "returned"
  /\ UNCHANGED uArg
  /\ UNCHANGED <<vVars, dVars, tVars, kVars, gVars, fVars>>

NextAttrs == ExtractSignedAttributesDer

SpecAttrs == InitAttrs /\ [][NextAttrs]_vars

\* the big-endian octets of a positive number
RECURSIVE BigEndianOctets(_)
BigEndianOctets(n) ==
  IF n < 256 THEN <<n>> ELSE Append(BigEndianOctets(n \div 256), n % 256)

\* X.690 definite length in DER: one octet below 128, else 0x80 + the
\* number of length octets, then the length big-endian
DerLengthOctets(len) ==
  IF len < 128 THEN <<len>>
  ELSE <<128 + Len(BigEndianOctets(len))>> \o BigEndianOctets(len)

AttrsRebuilt == uFn = "returned" /\ IsSome(uArg.signed_attrs)

\* C13: for signedAttrs content of any length the rebuilt bytes are 0x31,
\* the DER encoding of the content length, then the content unchanged, so
\* the total length is 1 + the size of the length header + the content
\* length.
C13_RebuiltSetIsDer ==
  AttrsRebuilt =>
    LET inner == uArg.signed_attrs[1].content
        header == DerLengthOctets(Len(inner))
    IN /\ IsSome(uRet)
       /\ uRet[1] = <<49>> \o header \o inner
       /\ Len(uRet[1]) = 1 + Len(header) + Len(inner)

\* C13 holds for content shorter than 65536 bytes
C13_RebuiltSetIsDerBelow64K ==
  (AttrsRebuilt /\ Len(uArg.signed_attrs[1].content) < 65536) =>
    uRet = Some(<<49>> \o DerLengthOctets(Len(uArg.signed_attrs[1].content))
                  \o uArg.signed_attrs[1].content)

\* from 65536 bytes on, the length header keeps the low 16 bits only
C13_LongContentHeaderTruncated ==
  (AttrsRebuilt /\ Len(uArg.signed_attrs[1].content) >= 65536) =>
    LET len == Len(uArg.signed_attrs[1].content)
    IN SubSeq(uRet[1], 1, 4) = <<49, 130, (len \div 256) % 256, len % 256>>

(* ------------------------------------------------------------------ *)
(* signed_bytes_extractor.rs, get_signature_der on /ByteRange arrays of *)
(* any content, one step per call it makes. usize addition wraps in a   *)
(* build without overflow checks and panics in a build with them; a     *)
(* slice &data[a..b] panics when a > b or b > data.len(). A panic is    *)
(* a result whose err is one of PanicMessages.                          *)
(* ------------------------------------------------------------------ *)

MaxNums == 5

Panic(msg) == [ok |-> FALSE, val |-> <<>>, err |-> msg]

PanicMessages ==
  {"panic: attempt to add with overflow", "panic: slice index out of range",
   "panic: index out of bounds"}

IsPanic(r) == r.err \in PanicMessages

RECURSIVE DecimalDigits(_)
DecimalDigits(n) ==
  IF n < 10 THEN <<48 + n>> ELSE Append(DecimalDigits(n \div 10), 48 + (n % 10))

\* what stands between `[` and `]`: 0, 2, 4, the largest usize, and `x`
RangeTokens == {<<48>>, <<50>>, <<52>>, DecimalDigits(UsizeLimit - 1), <<120>>}

RECURSIVE JoinTokens(_)
JoinTokens(toks) ==
  IF toks = <<>> THEN <<>>
  ELSE IF Len(toks) = 1 THEN toks[1]
  ELSE toks[1] \o <<32>> \o JoinTokens(Tail(toks))

RangeFile(toks) ==
  KW_BYTERANGE \o <<91>> \o JoinTokens(toks) \o <<93>> \o KW_CONTENTS
    \o <<60, 51, 49, 62>>

InitRange ==
  /\ uFn = "parse_byte_range"
  /\ \E toks \in SeqsUpTo(RangeTokens, MaxNums), checks \in BOOLEAN :
       uArg = [pdf_bytes |-> RangeFile(toks), overflow_checks |-> checks,
               tokens |-> toks]
  /\ uRet = Unset
  /\ vOff /\ dOff /\ tOff /\ kOff /\ gOff /\ fOff

\* line 41: `offset1 + len1 > len || offset2 + len2 > len`
parse_byte_range_built(pdf_bytes, overflow_checks) ==
  LET nums == byte_range_nums(pdf_bytes)
  IN IF /\ nums.ok /\ overflow_checks
        /\ \/ nums.val[1] + nums.val[2] >= UsizeLimit
           \/ /\ nums.val[1] + nums.val[2] <= Len(pdf_bytes)
              /\ nums.val[3] + nums.val[4] >= UsizeLimit
     THEN Panic("panic: attempt to add with overflow")
     ELSE parse_byte_range(pdf_bytes)

\* &data[from..to]
SliceChecked(data, from, to) ==
  IF from > to \/ to > Len(data) THEN Panic("panic: slice index out of range")
  ELSE Ok(Slice(data, from, to))

\* lines 53-60, with the bounds checks of the two slices
extract_signed_data_built(pdf_bytes, byte_range) ==
  LET s1 == SliceChecked(pdf_bytes, byte_range.offset1,
                         UsizeAdd(byte_range.offset1, byte_range.len1))
      s2 == SliceChecked(pdf_bytes, byte_range.offset2,
                         UsizeAdd(byte_range.offset2, byte_range.len2))
  IN IF ~s1.ok THEN s1 ELSE IF ~s2.ok THEN s2 ELSE Ok(s1.val \o s2.val)

\* get_signature_der, line 139
ParseByteRange ==
  /\ uFn = "parse_byte_range"
  /\ uRet' = parse_byte_range_built(uArg.pdf_bytes, uArg.overflow_checks)
  /\ uFn' = IF uRet'.ok THEN "extract_signed_data" ELSE "returned"
  /\ UNCHANGED uArg
  /\ UNCHANGED <<vVars, dVars, tVars, kVars, gVars, fVars>>

\* get_signature_der, line 140
ExtractSignedData ==
  /\ uFn = "extract_signed_data"
  /\ LET signed_data == extract_signed_data_built(uArg.pdf_bytes, uRet.val)
     IN uRet' = IF signed_data.ok
                THEN Ok([byte_range |-> uRet.val, signed_data |-> signed_data.val])
                ELSE signed_data
  /\ uFn' = IF uRet'.ok THEN "extract_signature_hex" ELSE "returned"
  /\ UNCHANGED uArg
  /\ UNCHANGED <<vVars, dVars, tVars, kVars, gVars, fVars>>

\* get_signature_der, lines 142-150
ExtractSignatureHex ==
  /\ uFn = "extract_signature_hex"
  /\ LET hex_str == extract_signature_hex(uArg.pdf_bytes,
                       MinOf(Positions(uArg.pdf_bytes, KW_BYTERANGE)))
         signature_der == decode_signature_hex(hex_str.val)
     IN uRet' = IF ~hex_str.ok THEN hex_str
                ELSE IF ~signature_der.ok THEN signature_der
                ELSE Ok([byte_range |-> uRet.val.byte_range,
                         signed_data |-> uRet.val.signed_data,
                         signature_der |-> signature_der.val])
  /\ uFn' = "returned"
  /\ UNCHANGED uArg
  /\ UNCHANGED <<vVars, dVars, tVars, kVars, gVars, fVars>>

NextRange ==
  \/ ParseByteRange
  \/ ExtractSignedData
  \/ ExtractSignatureHex

SpecRange == InitRange /\ [][NextRange]_vars

\* a token of ASCII decimal digits
IsDecimal(tok) == tok # <<>> /\ \A i \in 1..Len(tok) : IsAsciiDigit(tok[i])

\* the array of the file holds exactly four decimal integers
FourIntegers ==
  Len(uArg.tokens) = 4 /\ \A i \in 1..4 : IsDecimal(uArg.tokens[i])

\* the i-th integer of the array as a mathematical integer
RangeValue(i) == DigitsValue(uArg.tokens[i], 1, 0)

RangeReturned == uFn = "returned"

\* C14: the ByteRange extractor accepts only arrays of exactly four ASCII
\* decimal integers: with fewer or more integers, or with other tokens
\* among them, the call is an error.
C14_OnlyFourIntegersAccepted ==
  (RangeReturned /\ ~FourIntegers) => ~uRet.ok

\* arrays from which fewer than four integers can be read are rejected
C14_FewerThanFourRejected ==
  (RangeReturned
     /\ Cardinality({i \in 1..Len(uArg.tokens) : IsDecimal(uArg.tokens[i])}) < 4)
    => uRet = Err("InvalidByteRangeCount")

\* C15: for four machine-word values o1, l1, o2, l2, get_signature_der
\* returns ByteRangeOutOfBounds whenever o1 + l1 or o2 + l2, as integers,
\* exceeds the file length, also when the sum overflows usize; otherwise it
\* slices inside the file; no run wraps into a wrong slice or panics.
C15_OutOfBoundsIsRejected ==
  (RangeReturned /\ FourIntegers) =>
    IF \/ RangeValue(1) + RangeValue(2) > Len(uArg.pdf_bytes)
       \/ RangeValue(3) + RangeValue(4) > Len(uArg.pdf_bytes)
    THEN uRet = Err("ByteRangeOutOfBounds")
    ELSE /\ uRet.ok
         /\ uRet.val.signed_data
              = SubSeq(uArg.pdf_bytes, RangeValue(1) + 1, RangeValue(1) + RangeValue(2))
                  \o SubSeq(uArg.pdf_bytes, RangeValue(3) + 1,
                            RangeValue(3) + RangeValue(4))

\* C15 holds when neither sum overflows usize
C15_RejectedWithoutOverflow ==
  (RangeReturned /\ FourIntegers
     /\ RangeValue(1) + RangeValue(2) < UsizeLimit
     /\ RangeValue(3) + RangeValue(4) < UsizeLimit) =>
    IF \/ RangeValue(1) + RangeValue(2) > Len(uArg.pdf_bytes)
       \/ RangeValue(3) + RangeValue(4) > Len(uArg.pdf_bytes)
    THEN uRet = Err("ByteRangeOutOfBounds")
    ELSE uRet.ok

\* C16: every payload get_signature_der returns comes from a ByteRange
\* whose first segment ends at or before the start of the second.
C16_SegmentsOrdered ==
  (RangeReturned /\ uRet.ok) =>
    uRet.val.byte_range.offset1 + uRet.val.byte_range.len1
      <= uRet.val.byte_range.offset2

\* what the code does require of a returned ByteRange
C16_SegmentsInsideFile ==
  (RangeReturned /\ uRet.ok) =>
    /\ uRet.val.byte_range.offset1 + uRet.val.byte_range.len1 <= Len(uArg.pdf_bytes)
    /\ uRet.val.byte_range.offset2 + uRet.val.byte_range.len2 <= Len(uArg.pdf_bytes)

(* ------------------------------------------------------------------ *)
(* pkcs7_parser.rs, parse_signed_data on decoded ASN.1 trees. A block   *)
(* is a record with the fields of its ASN1Block variant; Explicit and   *)
(* Unknown blocks are context-specific. Bytes that the parser hands to  *)
(* from_der again (the content of an Unknown block, a BIT STRING) are   *)
(* held with their decoding: der_ok and blocks. `v[i]` on a Vec panics  *)
(* when i is not below its length; `.get(i)` does not.                  *)
(* ------------------------------------------------------------------ *)

Sequence(items) == [tag |-> "Sequence", items |-> items]

SetOf(items) == [tag |-> "Set", items |-> items]

ObjectIdentifier(oid) == [tag |-> "ObjectIdentifier", oid |-> oid]

Integer(value) == [tag |-> "Integer", value |-> value]

OctetString(bytes) == [tag |-> "OctetString", bytes |-> bytes]

BitString(der_ok, blocks) == [tag |-> "BitString", der_ok |-> der_ok, blocks |-> blocks]

Explicit(tag_no, inner) == [tag |-> "Explicit", tag_no |-> tag_no, inner |-> inner]

Unknown(tag_no, data, der_ok, blocks) ==
  [tag |-> "Unknown", tag_no |-> tag_no, data |-> data, der_ok |-> der_ok,
   blocks |-> blocks]

IndexPanic == Panic("panic: index out of bounds")

Pkcs7Structure == Err("Pkcs7Structure")

\* lines 273-287
extract_content_info(blocks) ==
  IF Len(blocks) > 0 /\ blocks[1].tag = "Sequence"
  THEN LET children == blocks[1].items
       IN IF children = <<>> THEN IndexPanic
          ELSE IF children[1].tag # "ObjectIdentifier" THEN Pkcs7Structure
          ELSE IF children[1].oid = "signedData" THEN Ok(children)
          ELSE Pkcs7Structure
  ELSE Pkcs7Structure

\* lines 289-316
extract_signed_children(children) ==
  IF Len(children) < 2 THEN Pkcs7Structure
  ELSE LET block == children[2]
       IN CASE block.tag = "Explicit" ->
                 IF block.inner.tag = "Sequence" THEN Ok(block.inner.items)
                 ELSE Pkcs7Structure
            [] block.tag = "Unknown" ->
                 IF ~block.der_ok THEN Err("Pkcs7Der")
                 ELSE IF block.blocks = <<>> THEN IndexPanic
                 ELSE IF block.blocks[1].tag = "Sequence"
                      THEN Ok(block.blocks[1].items)
                      ELSE Pkcs7Structure
            [] block.tag = "Sequence" -> Ok(block.items)
            [] OTHER -> Pkcs7Structure

\* lines 102-114
extract_signer_info(signed_data_seq) ==
  IF signed_data_seq # <<>> /\ signed_data_seq[Len(signed_data_seq)].tag = "Set"
  THEN LET items == signed_data_seq[Len(signed_data_seq)].items
       IN IF items # <<>> /\ items[1].tag = "Sequence" THEN Ok(items[1].items)
          ELSE Pkcs7Structure
  ELSE Pkcs7Structure

\* lines 116-155
extract_issuer_and_digest_algorithm(signer_info) ==
  IF Len(signer_info) < 2 THEN IndexPanic
  ELSE IF ~(signer_info[2].tag = "Sequence" /\ Len(signer_info[2].items) = 2)
  THEN Pkcs7Structure
  ELSE IF signer_info[2].items[2].tag # "Integer" THEN Pkcs7Structure
  ELSE IF Len(signer_info) < 3 THEN IndexPanic
  ELSE IF signer_info[3].tag # "Sequence" THEN Pkcs7Structure
  ELSE IF signer_info[3].items = <<>> THEN IndexPanic
  ELSE IF signer_info[3].items[1].tag # "ObjectIdentifier" THEN Pkcs7Structure
  ELSE Ok([signer_serial |-> signer_info[2].items[2].value,
           digest_oid |-> signer_info[3].items[1].oid])

\* lines 484-503: the loop over the candidate attributes
RECURSIVE MessageDigestFrom(_, _)
MessageDigestFrom(candidates, i) ==
  IF i > Len(candidates) THEN Err("Pkcs7MissingMessageDigest")
  ELSE LET attr == candidates[i]
       IN IF attr.tag # "Sequence" THEN MessageDigestFrom(candidates, i + 1)
          ELSE IF attr.items = <<>> THEN IndexPanic
          ELSE IF ~(attr.items[1].tag = "ObjectIdentifier"
                    /\ attr.items[1].oid = "messageDigest")
          THEN MessageDigestFrom(candidates, i + 1)
          ELSE IF Len(attr.items) < 2 THEN IndexPanic
          ELSE IF attr.items[2].tag # "Set" THEN Pkcs7Structure
          ELSE IF attr.items[2].items = <<>> THEN IndexPanic
          ELSE IF attr.items[2].items[1].tag = "OctetString"
               THEN Ok(attr.items[2].items[1].bytes)
               ELSE Pkcs7Structure

\* lines 473-504, on the decoded attributes
extract_message_digest_blocks(attrs) ==
  MessageDigestFrom(IF Len(attrs) = 1 /\ attrs[1].tag = "Set"
                    THEN attrs[1].items ELSE attrs, 1)

\* lines 158-160: the first [0] block of the SignerInfo
SignedAttrsBlock(signer_info) ==
  LET hits == {i \in 1..Len(signer_info) :
                 signer_info[i].tag = "Unknown" /\ signer_info[i].tag_no = 0}
  IN IF hits = {} THEN None ELSE Some(signer_info[MinOf(hits)])

\* lines 241-271
RECURSIVE SignedContentDigestFrom(_, _)
SignedContentDigestFrom(signed_data_seq, i) ==
  IF i > Len(signed_data_seq) THEN Ok(None)
  ELSE LET block == signed_data_seq[i]
           rest == SignedContentDigestFrom(signed_data_seq, i + 1)
       IN IF ~(/\ block.tag = "Sequence" /\ Len(block.items) >= 2
               /\ block.items[1].tag = "ObjectIdentifier"
               /\ block.items[1].oid = "data")
          THEN rest
          ELSE LET inner == block.items[2]
               IN CASE inner.tag = "Explicit" ->
                         IF inner.inner.tag = "OctetString"
                         THEN Ok(Some(inner.inner.bytes)) ELSE rest
                    [] inner.tag = "Unknown" ->
                         IF ~inner.der_ok THEN Err("Pkcs7Der")
                         ELSE IF inner.blocks # <<>> /\ inner.blocks[1].tag = "OctetString"
                              THEN Ok(Some(inner.blocks[1].bytes)) ELSE rest
                    [] inner.tag = "OctetString" -> Ok(Some(inner.bytes))
                    [] OTHER -> rest

extract_signed_content_digest(signed_data_seq) ==
  SignedContentDigestFrom(signed_data_seq, 1)

\* lines 216-225
extract_signature_at(signer_info, has_signed_attrs) ==
  LET sig_index == IF has_signed_attrs THEN 5 ELSE 4
  IN IF Len(signer_info) > sig_index /\ signer_info[sig_index + 1].tag = "OctetString"
     THEN Ok(signer_info[sig_index + 1].bytes)
     ELSE Pkcs7Structure

\* get_signature_data, lines 49-99, after the serial and the digest OID
signature_data_from(signed_data_seq, signer_info, ids) ==
  LET attrs == SignedAttrsBlock(signer_info)
      embedded_digest == extract_signed_content_digest(signed_data_seq)
      algo == digest_algorithm_from_oid(ids.digest_oid)
      signature_bytes == extract_signature_at(signer_info, IsSome(attrs))
      message_digest == IF IsSome(attrs)
                        THEN extract_message_digest_blocks(<<SetOf(attrs[1].blocks)>>)
                        ELSE Ok(<<>>)
      der == extract_signed_attributes_der(
               [signed_attrs |-> IF IsSome(attrs)
                                 THEN Some([content |-> attrs[1].data]) ELSE None])
  IN IF ~embedded_digest.ok THEN embedded_digest
     ELSE IF IsSome(attrs) /\ ~algo.ok THEN algo
     ELSE IF IsSome(attrs) /\ ~attrs[1].der_ok THEN Err("Pkcs7Der")
     ELSE IF IsSome(attrs) /\ ~message_digest.ok THEN message_digest
     ELSE IF ~IsSome(attrs) /\ ~IsSome(embedded_digest.val) THEN Pkcs7Structure
     ELSE IF ~algo.ok THEN algo
     ELSE IF ~signature_bytes.ok THEN signature_bytes
     ELSE Ok([signature |-> signature_bytes.val,
              signer_serial |-> ids.signer_serial,
              digest_bytes |-> IF IsSome(attrs)
                               THEN Some(ShaDigest(algo.val, der[1]))
                               ELSE Some(ShaDigest(algo.val, embedded_digest.val[1])),
              signed_algo |-> algo.val,
              expected_message_digest |-> IF IsSome(attrs)
                                          THEN Some(message_digest.val)
                                          ELSE embedded_digest.val])

\* lines 333-388
find_certificates(signed_data_seq) ==
  LET hits == {i \in 1..Len(signed_data_seq) :
                 /\ signed_data_seq[i].tag \in {"Explicit", "Unknown"}
                 /\ signed_data_seq[i].tag_no = 0}
  IN IF hits = {} THEN Ok(<<>>)
     ELSE LET cert_block == signed_data_seq[MinOf(hits)]
          IN IF cert_block.tag = "Unknown"
             THEN IF ~cert_block.der_ok THEN Err("Pkcs7Der")
                  ELSE IF Len(cert_block.blocks) = 1
                          /\ cert_block.blocks[1].tag \in {"Set", "Sequence"}
                       THEN Ok(cert_block.blocks[1].items)
                  ELSE IF \A i \in 1..Len(cert_block.blocks) :
                            cert_block.blocks[i].tag = "Sequence"
                       THEN Ok(cert_block.blocks)
                  ELSE Pkcs7Structure
             ELSE IF cert_block.inner.tag = "Set" THEN Ok(cert_block.inner.items)
                  ELSE IF cert_block.inner.tag = "Sequence" THEN Ok(<<cert_block.inner>>)
                  ELSE Pkcs7Structure

\* lines 390-419
RECURSIVE CorrectTbsFrom(_, _, _)
CorrectTbsFrom(certificates, i, signed_serial_number) ==
  IF i > Len(certificates) THEN Pkcs7Structure
  ELSE IF certificates[i].tag # "Sequence" THEN Pkcs7Structure
  ELSE LET cert_fields == certificates[i].items
       IN IF cert_fields = <<>> THEN IndexPanic
          ELSE IF cert_fields[1].tag \notin {"Explicit", "Sequence"} THEN Pkcs7Structure
          ELSE LET tbs_fields == IF cert_fields[1].tag = "Explicit"
                                 THEN cert_fields ELSE cert_fields[1].items
               IN IF Len(tbs_fields) < 2 THEN IndexPanic
                  ELSE IF tbs_fields[2].tag # "Integer" THEN Pkcs7Structure
                  ELSE IF tbs_fields[2].value = signed_serial_number
                       THEN Ok(tbs_fields)
                       ELSE CorrectTbsFrom(certificates, i + 1, signed_serial_number)

get_correct_tbs(certificates, signed_serial_number) ==
  CorrectTbsFrom(certificates, 1, signed_serial_number)

\* lines 421-437: find_map over the fields in order
RECURSIVE SubjectPublicKeyInfoFrom(_, _)
SubjectPublicKeyInfoFrom(tbs_fields, i) ==
  IF i > Len(tbs_fields) THEN Pkcs7Structure
  ELSE IF tbs_fields[i].tag # "Sequence"
  THEN SubjectPublicKeyInfoFrom(tbs_fields, i + 1)
  ELSE LET sf == tbs_fields[i].items
       IN IF sf = <<>> THEN IndexPanic
          ELSE IF /\ sf[1].tag = "Sequence" /\ sf[1].items # <<>>
                  /\ sf[1].items[1].tag = "ObjectIdentifier"
                  /\ sf[1].items[1].oid = "rsaEncryption"
               THEN Ok(sf)
               ELSE SubjectPublicKeyInfoFrom(tbs_fields, i + 1)

find_subject_public_key_info(tbs_fields) == SubjectPublicKeyInfoFrom(tbs_fields, 1)

\* lines 439-445
extract_public_key_bitstring(spki_fields) ==
  IF Len(spki_fields) < 2 THEN IndexPanic
  ELSE IF spki_fields[2].tag = "BitString" THEN Ok(spki_fields[2])
  ELSE Pkcs7Structure

\* lines 447-454
parse_rsa_public_key(bitstring) ==
  IF ~bitstring.der_ok THEN Err("Pkcs7Der")
  ELSE IF bitstring.blocks = <<>> THEN IndexPanic
  ELSE IF bitstring.blocks[1].tag = "Sequence" THEN Ok(bitstring.blocks[1].items)
  ELSE Pkcs7Structure

\* lines 464-470
extract_modulus(rsa_sequence) ==
  IF rsa_sequence = <<>> THEN IndexPanic
  ELSE IF rsa_sequence[1].tag = "Integer" THEN Ok(rsa_sequence[1].value)
  ELSE Pkcs7Structure

\* lines 456-462
extract_exponent(rsa_sequence) ==
  IF Len(rsa_sequence) < 2 THEN IndexPanic
  ELSE IF rsa_sequence[2].tag = "Integer" THEN Ok(rsa_sequence[2].value)
  ELSE Pkcs7Structure

(* The trees of the model: a SignedData with one certificate and one    *)
(* SignerInfo, cut short at the places a shape names: how many children *)
(* the top-level SEQUENCE, the SignerInfo, the digestAlgorithm, the     *)
(* certificate's fields, the issuer name, the subjectPublicKeyInfo and  *)
(* the RSAPublicKey keep, and what the messageDigest attribute holds.   *)

Null == [tag |-> "Null"]

TreeShapes ==
  [top : 0..2, si : {1, 2, 6}, dalg : 0..1,
   attr : {"value", "empty_set", "no_value"}, tbs : {0, 1, 7},
   names : 0..1, spki : 1..2, rsa : 0..2]

AttributesOf(sh) ==
  << Sequence(<<ObjectIdentifier("contentType"), SetOf(<<ObjectIdentifier("data")>>)>>),
     Sequence(Take(<<ObjectIdentifier("messageDigest"),
                     SetOf(IF sh.attr = "empty_set" THEN <<>>
                           ELSE <<OctetString(<<2, 9>>)>>)>>,
                   IF sh.attr = "no_value" THEN 1 ELSE 2)) >>

SignerInfoOf(sh) ==
  Take(<< Integer(1),
          Sequence(<<Sequence(<<SetOf(<<Null>>)>>), Integer(7)>>),
          Sequence(Take(<<ObjectIdentifier("sha256")>>, sh.dalg)),
          Unknown(0, <<4, 9>>, TRUE, AttributesOf(sh)),
          Sequence(<<ObjectIdentifier("rsaEncryption"), Null>>),
          OctetString(<<83>>) >>, sh.si)

TbsFieldsOf(sh) ==
  Take(<< Explicit(0, Integer(2)),
          Integer(7),
          Sequence(<<ObjectIdentifier("sha256WithRSAEncryption"), Null>>),
          Sequence(Take(<<SetOf(<<Null>>)>>, sh.names)),
          Sequence(<<Null, Null>>),
          Sequence(<<SetOf(<<Null>>)>>),
          Sequence(Take(<< Sequence(<<ObjectIdentifier("rsaEncryption"), Null>>),
                           BitString(TRUE, <<Sequence(Take(<<Integer(187), Integer(3)>>,
                                                           sh.rsa))>>) >>,
                        sh.spki)) >>, sh.tbs)

CertificateOf(sh) ==
  IF sh.tbs = 0 THEN Sequence(<<>>)
  ELSE Sequence(<< Sequence(TbsFieldsOf(sh)),
                   Sequence(<<ObjectIdentifier("sha256WithRSAEncryption"), Null>>),
                   BitString(FALSE, <<>>) >>)

\* what from_der returns for the blob
TreeOf(sh) ==
  << Sequence(Take(
       << ObjectIdentifier("signedData"),
          Explicit(0, Sequence(
            << Integer(1),
               SetOf(<<Sequence(<<ObjectIdentifier("sha256"), Null>>)>>),
               Sequence(<<ObjectIdentifier("data")>>),
               Explicit(0, CertificateOf(sh)),
               SetOf(<<Sequence(SignerInfoOf(sh))>>) >>)) >>, sh.top)) >>

\* the shape nothing is cut from
WellShaped ==
  [top |-> 2, si |-> 6, dalg |-> 1, attr |-> "value", tbs |-> 7, names |-> 1,
   spki |-> 2, rsa |-> 2]

(* parse_signed_data on a tree, one call per step. uArg is what from_der *)
(* returned, uFn the call that comes next, uRet the locals so far or the *)
(* outcome that ended the run.                                           *)

NoLocals ==
  [content_info |-> <<>>, signed_children |-> <<>>, signer_info_items |-> <<>>,
   ids |-> <<>>, signature_data |-> <<>>, certificates |-> <<>>,
   tbs_fields |-> <<>>, spki_fields |-> <<>>, public_key_bitstring |-> <<>>,
   rsa_sequence |-> <<>>, modulus |-> <<>>]

InitAsn ==
  /\ vOff /\ dOff /\ tOff /\ kOff /\ gOff /\ fOff
  /\ uFn = "extract_content_info"
  /\ \E sh \in TreeShapes : uArg = [blocks |-> TreeOf(sh), shape |-> sh]
  /\ uRet = Ok(NoLocals)

\* `let field = call?;` then on to the next call
AsnLet(label, r, field, next) ==
  /\ uFn = label
  /\ uRet' = IF r.ok THEN Ok([uRet.val EXCEPT ![field] = r.val]) ELSE r
  /\ uFn' = IF r.ok THEN next ELSE "returned"
  /\ UNCHANGED <<uArg, vVars, dVars, tVars, kVars, gVars, fVars>>

ExtractContentInfo ==
  AsnLet("extract_content_info", extract_content_info(uArg.blocks),
         "content_info", "extract_signed_children")

ExtractSignedChildren ==
  AsnLet("extract_signed_children", extract_signed_children(uRet.val.content_info),
         "signed_children", "extract_signer_info")

ExtractSignerInfo ==
  AsnLet("extract_signer_info", extract_signer_info(uRet.val.signed_children),
         "signer_info_items", "extract_issuer_and_digest_algorithm")

ExtractIssuerAndDigestAlgorithm ==
  AsnLet("extract_issuer_and_digest_algorithm",
         extract_issuer_and_digest_algorithm(uRet.val.signer_info_items),
         "ids", "get_signature_data")

GetSignatureData ==
  AsnLet("get_signature_data",
         signature_data_from(uRet.val.signed_children, uRet.val.signer_info_items,
                             uRet.val.ids),
         "signature_data", "find_certificates")

FindCertificates ==
  AsnLet("find_certificates", find_certificates(uRet.val.signed_children),
         "certificates", "get_correct_tbs")

GetCorrectTbs ==
  AsnLet("get_correct_tbs",
         get_correct_tbs(uRet.val.certificates, uRet.val.signature_data.signer_serial),
         "tbs_fields", "find_subject_public_key_info")

FindSubjectPublicKeyInfo ==
  AsnLet("find_subject_public_key_info",
         find_subject_public_key_info(uRet.val.tbs_fields),
         "spki_fields", "extract_public_key_bitstring")

ExtractPublicKeyBitstring ==
  AsnLet("extract_public_key_bitstring",
         extract_public_key_bitstring(uRet.val.spki_fields),
         "public_key_bitstring", "parse_rsa_public_key")

ParseRsaPublicKey ==
  AsnLet("parse_rsa_public_key", parse_rsa_public_key(uRet.val.public_key_bitstring),
         "rsa_sequence", "extract_modulus")

ExtractModulus ==
  AsnLet("extract_modulus", extract_modulus(uRet.val.rsa_sequence),
         "modulus", "extract_exponent")

\* the last call, and the VerifierParams of lines 28-35
ExtractExponent ==
  /\ uFn = "extract_exponent"
  /\ LET exponent == extract_exponent(uRet.val.rsa_sequence)
         signature_data == uRet.val.signature_data
     IN uRet' = IF ~exponent.ok THEN exponent
                ELSE Ok([modulus |-> uRet.val.modulus,
                         exponent |-> exponent.val,
                         signature |-> signature_data.signature,
                         signed_attr_digest |-> signature_data.digest_bytes,
                         algorithm |-> signature_data.signed_algo,
                         signed_data_message_digest |->
                           signature_data.expected_message_digest])
  /\ uFn' = "returned"
  /\ UNCHANGED <<uArg, vVars, dVars, tVars, kVars, gVars, fVars>>

NextAsn ==
  \/ ExtractContentInfo
  \/ ExtractSignedChildren
  \/ ExtractSignerInfo
  \/ ExtractIssuerAndDigestAlgorithm
  \/ GetSignatureData
  \/ FindCertificates
  \/ GetCorrectTbs
  \/ FindSubjectPublicKeyInfo
  \/ ExtractPublicKeyBitstring
  \/ ParseRsaPublicKey
  \/ ExtractModulus
  \/ ExtractExponent

SpecAsn == InitAsn /\ [][NextAsn]_vars

AsnReturned == uFn = "returned"

Pkcs7Errors == {"Pkcs7Structure", "Pkcs7Der", "Pkcs7UnsupportedDigestOid",
   "Pkcs7MissingMessageDigest", "UnsupportedAlgorithm"}

(* C18: parse_signed_data is total over well-formed DER of unexpected   *)
(* shape: whatever the tree holds, the call returns, with the parameters *)
(* or with a Pkcs7Error, and never panics on an index out of range.      *)
C18_ParseSignedDataTotal == AsnReturned => ~IsPanic(uRet)

\* a SignedData that has every field parses
C18_WellShapedParses ==
  (AsnReturned /\ uArg.shape = WellShaped) =>
    /\ uRet.ok
    /\ uRet.val.modulus = 187 /\ uRet.val.exponent = 3
    /\ uRet.val.signature = <<83>>
    /\ uRet.val.signed_data_message_digest = Some(<<2, 9>>)

\* the calls that index without a length check are the only ones that panic
C18_PanicsAreShortSequences ==
  (AsnReturned /\ IsPanic(uRet)) =>
    \/ uArg.shape.top = 0
    \/ uArg.shape.si < 3 \/ uArg.shape.dalg = 0
    \/ uArg.shape.attr # "value"
    \/ uArg.shape.tbs < 2 \/ uArg.shape.names = 0
    \/ uArg.shape.spki < 2 \/ uArg.shape.rsa < 2

\* a tree that does not panic gives the parameters or a Pkcs7Error
C18_OtherwiseResult ==
  (AsnReturned /\ ~IsPanic(uRet)) => (uRet.ok \/ uRet.err \in Pkcs7Errors)

(* ------------------------------------------------------------------ *)
(* Parser::parse_value and Parser::parse_number (extractor/parser.rs). *)
(* The integers keep their width: a u16 is one limb of sixteen bits, a *)
(* u32 two limbs and an i64 four, least significant limb first.        *)
(* ------------------------------------------------------------------ *)

LimbBase == 2 ^ 16

U16_ZERO == <<0>>
U32_ZERO == <<0, 0>>
I64_ZERO == <<0, 0, 0, 0>>
U16_MAX == <<65535>>
U32_MAX == <<65535, 65535>>
I64_MAX == <<65535, 65535, 65535, 32767>>

\* limbs * 10 + carry, one limb longer than limbs: the last limb is what
\* does not fit the width
RECURSIVE MulTenAdd(_, _)
MulTenAdd(limbs, carry) ==
  IF limbs = <<>> THEN <<carry>>
  ELSE LET t == Head(limbs) * 10 + carry
       IN <<t % LimbBase>> \o MulTenAdd(Tail(limbs), t \div LimbBase)

\* v.wrapping_mul(10).wrapping_add(d), for an unsigned v
wrapping_mul_add(v, d) == Take(MulTenAdd(v, d), Len(v))

\* v.saturating_mul(10).saturating_add(d), for an i64 v >= 0
saturating_mul_add(v, d) ==
  LET r == MulTenAdd(v, d)
  IN IF r[Len(r)] > 0 \/ r[Len(v)] >= LimbBase \div 2 THEN I64_MAX
     ELSE Take(r, Len(v))

\* `as i64` of a u32
AsI64(limbs) == limbs \o <<0, 0>>

PdfNumber(neg, int, frac, frac_digits) ==
  [type |-> "Number", neg |-> neg /\ (int # I64_ZERO \/ frac # I64_ZERO),
   int |-> int, frac |-> frac, frac_digits |-> frac_digits]

PdfReference(obj_num, gen_num) ==
  [type |-> "Reference", obj_num |-> obj_num, gen_num |-> gen_num]

PdfNull == [type |-> "Null"]

\* what a call leaves: its result and self.pos
Parsed(r, pos) == [result |-> r, pos |-> pos]

\* lines 20-42: self.pos after the call
RECURSIVE CommentLineEnd(_, _)
CommentLineEnd(data, pos) ==
  IF pos < Len(data) /\ At(data, pos) # 10 /\ At(data, pos) # 13
  THEN CommentLineEnd(data, pos + 1) ELSE pos

RECURSIVE skip_whitespace_and_comments(_, _)
skip_whitespace_and_comments(data, pos) ==
  IF pos >= Len(data) THEN pos
  ELSE IF At(data, pos) = 37
  THEN skip_whitespace_and_comments(data, CommentLineEnd(data, pos))
  ELSE IF At(data, pos) \in {0, 9, 10, 12, 13, 32}
  THEN skip_whitespace_and_comments(data, pos + 1)
  ELSE pos

\* a `while ... is_ascii_digit()` loop: the value folded by step, and the
\* position and the number of digits taken
RECURSIVE DigitLoop(_, _, _, _, _)
DigitLoop(data, pos, v, count, wraps) ==
  IF pos < Len(data) /\ IsAsciiDigit(At(data, pos))
  THEN DigitLoop(data, pos + 1,
                 IF wraps THEN wrapping_mul_add(v, At(data, pos) - 48)
                 ELSE saturating_mul_add(v, At(data, pos) - 48),
                 count + 1, wraps)
  ELSE [value |-> v, pos |-> pos, digits_count |-> count]

\* lines 96-136
Parser_parse_number(data, pos0) ==
  LET start == skip_whitespace_and_comments(data, pos0)
  IN IF start >= Len(data)
     THEN Parsed(Err("Unexpected EOF in number"), start)
     ELSE LET signed == At(data, start) \in {43, 45}
              negative == At(data, start) = 45
              int_value == DigitLoop(data, IF signed THEN start + 1 ELSE start,
                                     I64_ZERO, 0, FALSE)
          IN IF int_value.pos < Len(data) /\ At(data, int_value.pos) = 46
             THEN LET frac_value == DigitLoop(data, int_value.pos + 1, I64_ZERO, 0, FALSE)
                  IN Parsed(Ok(PdfNumber(negative, int_value.value, frac_value.value,
                                         frac_value.digits_count)),
                            frac_value.pos)
             ELSE Parsed(Ok(PdfNumber(negative, int_value.value, I64_ZERO, 0)),
                         int_value.pos)

\* is_ascii_whitespace of a byte, as parse_value's last arm tests it
RECURSIVE TokenEnd(_, _)
TokenEnd(data, pos) ==
  IF pos < Len(data) /\ ~IsAsciiWhitespace(At(data, pos))
  THEN TokenEnd(data, pos + 1) ELSE pos

\* lines 344-393: the arm of `+`, `-`, `.` and the digits
NumberOrReference(data, save_pos) ==
  LET byte == At(data, save_pos)
      neg == byte = 45
      first == DigitLoop(data, IF byte \in {43, 45} THEN save_pos + 1 ELSE save_pos,
                         U32_ZERO, 0, TRUE)
      obj_num == first.value
      is_integer == first.digits_count > 0
                    /\ (first.pos >= Len(data) \/ At(data, first.pos) # 46)
      pos_after_first == first.pos
      gen_start == skip_whitespace_and_comments(data, pos_after_first)
      second == DigitLoop(data, gen_start, U16_ZERO, 0, TRUE)
      r_pos == skip_whitespace_and_comments(data, second.pos)
  IN IF ~is_integer THEN Parser_parse_number(data, save_pos)
     ELSE IF /\ gen_start < Len(data) /\ IsAsciiDigit(At(data, gen_start))
             /\ second.digits_count > 0
             /\ r_pos < Len(data) /\ At(data, r_pos) = 82
     THEN Parsed(Ok(PdfReference(obj_num, second.value)), r_pos + 1)
     ELSE Parsed(Ok(PdfNumber(neg, AsI64(obj_num), I64_ZERO, 0)), pos_after_first)

\* lines 44-93: the bytes of the name and self.pos after the call
RECURSIVE NameLoop(_, _, _)
NameLoop(data, pos, name_bytes) ==
  IF pos >= Len(data) \/ is_delimiter(At(data, pos)) \/ IsAsciiWhitespace(At(data, pos))
  THEN [name_bytes |-> name_bytes, pos |-> pos]
  ELSE IF /\ At(data, pos) = 35 /\ pos + 2 < Len(data)
          /\ IsSome(hex_value(At(data, pos + 1))) /\ IsSome(hex_value(At(data, pos + 2)))
  THEN NameLoop(data, pos + 3,
                Append(name_bytes, hex_value(At(data, pos + 1))[1] * 16
                                   + hex_value(At(data, pos + 2))[1]))
  ELSE NameLoop(data, pos + 1, Append(name_bytes, At(data, pos)))

PdfName(name_str) == [type |-> "Name", name |-> name_str]

Parser_parse_name(data, pos) ==
  IF pos >= Len(data) \/ At(data, pos) # 47
  THEN Parsed(Err("Name must start with '/'"), pos)
  ELSE LET n == NameLoop(data, pos + 1, <<>>)
       IN Parsed(Ok(PdfName(n.name_bytes)), n.pos)

\* lines 287-401. The arms of `<`, `[`, `(` and of the keywords (294-340)
\* open no value of the files below and are left out.
Parser_parse_value(data, pos0) ==
  LET pos == skip_whitespace_and_comments(data, pos0)
  IN IF pos >= Len(data)
     THEN Parsed(Err("Unexpected EOF while parsing value"), pos)
     ELSE IF At(data, pos) = 47 THEN Parser_parse_name(data, pos)
     ELSE IF At(data, pos) \in {43, 45, 46} \/ IsAsciiDigit(At(data, pos))
     THEN NumberOrReference(data, pos)
     ELSE Parsed(Ok(PdfNull), TokenEnd(data, pos))

(* The files: a first literal, a gap, a second literal, a gap and a tail. *)

\* the first literal: `10`, `0`, `7`, `-10`, `+7`, `-0`, `10.5`, `.5`,
\* `10.`, `-`, `4294967295`, `4294967296`, `4294967306`,
\* `9223372036854775807.`, `9223372036854775808.5`,
\* `99999999999999999999.25`
FirstLiterals ==
  { <<49, 48>>,
    <<48>>,
    <<55>>,
    <<45, 49, 48>>,
    <<43, 55>>,
    <<45, 48>>,
    <<49, 48, 46, 53>>,
    <<46, 53>>,
    <<49, 48, 46>>,
    <<45>>,
    <<52, 50, 57, 52, 57, 54, 55, 50, 57, 53>>,
    <<52, 50, 57, 52, 57, 54, 55, 50, 57, 54>>,
    <<52, 50, 57, 52, 57, 54, 55, 51, 48, 54>>,
    <<57, 50, 50, 51, 51, 55, 50, 48, 51, 54, 56, 53, 52, 55, 55, 53, 56, 48, 55, 46>>,
    <<57, 50, 50, 51, 51, 55, 50, 48, 51, 54, 56, 53, 52, 55, 55, 53, 56, 48, 56, 46, 53>>,
    <<57, 57, 57, 57, 57, 57, 57, 57, 57, 57, 57, 57, 57, 57, 57, 57, 57, 57, 57, 57, 46, 50, 53>> }

\* the second literal: nothing, `0`, `7`, `65535`, `65536`, `65543`, `0.5`,
\* `-1`
SecondLiterals ==
  { <<>>,
    <<48>>,
    <<55>>,
    <<54, 53, 53, 51, 53>>,
    <<54, 53, 53, 51, 54>>,
    <<54, 53, 53, 52, 51>>,
    <<48, 46, 53>>,
    <<45, 49>> }

\* the tail: nothing, `R`, ` R`, `RG`, `x`, `%R`
Tails ==
  { <<>>,
    <<82>>,
    <<32, 82>>,
    <<82, 71>>,
    <<120>>,
    <<37, 82>> }

\* the gap, a space or a comment line: ` `, `%c\n`
Gaps ==
  { <<32>>,
    <<37, 99, 10>> }

(* The calls on one file: parse_value from the start and then from where *)
(* the call before it stopped, as the loops of its callers call it, or   *)
(* parse_number from the start. uRet is the list of what the calls left. *)

MaxValues == 3

InitValue ==
  /\ vOff /\ dOff /\ tOff /\ kOff /\ gOff /\ fOff
  /\ uFn \in {"parse_value", "parse_number"}
  /\ \E a \in FirstLiterals, g \in Gaps, b \in SecondLiterals, h \in {<<>>, <<32>>},
        t \in Tails :
        uArg = [data |-> a \o g \o b \o h \o t, first |-> a, second |-> b,
                tail |-> h \o t, fn |-> uFn]
  /\ uRet = <<>>

ParserPos == IF uRet = <<>> THEN 0 ELSE uRet[Len(uRet)].pos

ParseValue ==
  /\ uFn = "parse_value"
  /\ LET r == Parser_parse_value(uArg.data, ParserPos)
     IN /\ uRet' = Append(uRet, r)
        /\ uFn' = IF r.result.ok /\ Len(uRet) + 1 < MaxValues
                  THEN "parse_value" ELSE "done"
  /\ UNCHANGED <<uArg, vVars, dVars, tVars, kVars, gVars, fVars>>

ParseNumber ==
  /\ uFn = "parse_number"
  /\ uRet' = <<Parser_parse_number(uArg.data, 0)>>
  /\ uFn' = "done"
  /\ UNCHANGED <<uArg, vVars, dVars, tVars, kVars, gVars, fVars>>

NextValue == ParseValue \/ ParseNumber

SpecValue == InitValue /\ [][NextValue]_vars

(* What the literals of a file say, read off the text. *)

\* the digits a text starts with
RECURSIVE LeadingDigits(_)
LeadingDigits(text) ==
  IF text # <<>> /\ IsAsciiDigit(Head(text))
  THEN <<Head(text)>> \o LeadingDigits(Tail(text)) ELSE <<>>

Unsigned(text) == IF text # <<>> /\ Head(text) \in {43, 45} THEN Tail(text) ELSE text

IsUnsignedInteger(text) == text # <<>> /\ LeadingDigits(text) = text

IsInteger(text) == IsUnsignedInteger(Unsigned(text))

IsNegative(text) == text # <<>> /\ Head(text) = 45

\* the value of a digit string, exact, on six limbs
RECURSIVE ExactValue(_, _)
ExactValue(digits, v) ==
  IF digits = <<>> THEN v
  ELSE ExactValue(Tail(digits), Take(MulTenAdd(v, Head(digits) - 48), 6))

ValueOf(digits) == ExactValue(digits, <<0, 0, 0, 0, 0, 0>>)

\* the limbs above the first n are zero and the top limb of the n is below top
FitsLimbs(v, n, top) ==
  /\ \A i \in (n + 1)..Len(v) : v[i] = 0
  /\ v[n] < top

\* the value, or the largest value of the width when it does not fit
Saturated(digits, max) ==
  IF FitsLimbs(ValueOf(digits), Len(max), max[Len(max)] + 1)
  THEN Take(ValueOf(digits), Len(max)) ELSE max

FitsU32(text) == FitsLimbs(ValueOf(text), 2, LimbBase)
FitsU16(text) == FitsLimbs(ValueOf(text), 1, LimbBase)

FirstCall == uRet[1]

ValueCalled == uArg.fn = "parse_value" /\ uRet # <<>>

NumberCalled == uArg.fn = "parse_number" /\ uRet # <<>>

RECURSIVE AfterSpaces(_)
AfterSpaces(text) ==
  IF text # <<>> /\ Head(text) = 32 THEN AfterSpaces(Tail(text)) ELSE text

\* the first literal is an integer, a second unsigned integer and `R` follow
ReferenceWritten ==
  /\ IsInteger(uArg.first) /\ IsUnsignedInteger(uArg.second)
  /\ LET rest == AfterSpaces(uArg.tail)
     IN rest # <<>> /\ Head(rest) = 82

\* both literals are inside their ranges
InRange ==
  /\ FitsU32(LeadingDigits(Unsigned(uArg.first)))
  /\ IsUnsignedInteger(uArg.second) => FitsU16(uArg.second)

\* the first literal as Number(N)
FirstNumber ==
  PdfNumber(IsNegative(uArg.first),
            Take(ValueOf(Unsigned(uArg.first)), 4), I64_ZERO, 0)

(* C19: an integer followed, after whitespace, by a second unsigned     *)
(* integer and then `R` parses as Reference((N, G)); an integer in any   *)
(* other place parses as Number(N) and leaves the position just after    *)
(* the first integer.                                                    *)
C19_NumberOrReference ==
  (ValueCalled /\ IsInteger(uArg.first) /\ InRange) =>
    /\ FirstCall.result.ok
    /\ IF ReferenceWritten
       THEN /\ FirstCall.result.val.type = "Reference"
            /\ ~FirstNumber.neg
            /\ AsI64(FirstCall.result.val.obj_num) = FirstNumber.int
            /\ FirstCall.result.val.gen_num = Take(ValueOf(uArg.second), 1)
       ELSE /\ FirstCall.result.val.type = "Number"
            /\ FirstCall.result.val = FirstNumber
            /\ FirstCall.pos = Len(uArg.first)

\* the same, of a first integer that is not negative
C19_UnsignedNumberOrReference ==
  (ValueCalled /\ IsInteger(uArg.first) /\ ~FirstNumber.neg /\ InRange) =>
    /\ FirstCall.result.ok
    /\ IF ReferenceWritten
       THEN FirstCall.result.val =
              PdfReference(Take(FirstNumber.int, 2), Take(ValueOf(uArg.second), 1))
       ELSE FirstCall.result.val = FirstNumber /\ FirstCall.pos = Len(uArg.first)

\* a Reference is returned only where N G R is written, whatever the sign of N
C19_ReferenceOnlyWhereWritten ==
  (ValueCalled /\ FirstCall.result.ok /\ FirstCall.result.val.type = "Reference") =>
    ReferenceWritten

\* N G without R: two Numbers, the second one G
C19_TwoNumbers ==
  (/\ uFn = "done" /\ ValueCalled /\ IsInteger(uArg.first) /\ InRange
   /\ IsUnsignedInteger(uArg.second) /\ ~ReferenceWritten) =>
    /\ Len(uRet) >= 2
    /\ uRet[2].result.ok
    /\ uRet[2].result.val =
         PdfNumber(FALSE, Take(ValueOf(uArg.second), 4), I64_ZERO, 0)

\* digits, `.`, digits: one real Number, whatever follows
C19_RealNumber ==
  (ValueCalled /\ uArg.first = <<49, 48, 46, 53>>) =>
    /\ FirstCall.result.ok
    /\ FirstCall.result.val = PdfNumber(FALSE, <<10, 0, 0, 0>>, <<5, 0, 0, 0>>, 1)
    /\ FirstCall.pos = 4

\* the digits before and after the `.` of the first literal
IntDigits == LeadingDigits(Unsigned(uArg.first))

FracDigits ==
  LET rest == SubSeq(Unsigned(uArg.first), Len(IntDigits) + 1,
                     Len(Unsigned(uArg.first)))
  IN IF rest # <<>> /\ Head(rest) = 46 THEN LeadingDigits(Tail(rest)) ELSE <<>>

(* C20: numeric literals saturate: parse_value and parse_number return, *)
(* for every digit string, the value saturated at the range of its      *)
(* integer (32 bits for an object number, 16 for a generation, 64 for a *)
(* number), and never the value modulo 2^w.                             *)
C20_LiteralsSaturate ==
  (uRet # <<>> /\ FirstCall.result.ok) =>
    LET v == FirstCall.result.val
    IN /\ v.type = "Reference" =>
            /\ v.obj_num = Saturated(IntDigits, U32_MAX)
            /\ v.gen_num = Saturated(uArg.second, U16_MAX)
       /\ v.type = "Number" =>
            /\ \/ v.int = Saturated(IntDigits, I64_MAX)
               \/ v.int = AsI64(Saturated(IntDigits, U32_MAX))
            /\ v.frac = Saturated(FracDigits, I64_MAX)

\* parse_number saturates, called or reached through parse_value by a `.`
C20_ParseNumberSaturates ==
  (/\ uRet # <<>> /\ FirstCall.result.ok
   /\ NumberCalled \/ ~IsInteger(uArg.first)) =>
    /\ FirstCall.result.val.type = "Number"
    /\ FirstCall.result.val.int = Saturated(IntDigits, I64_MAX)
    /\ FirstCall.result.val.frac = Saturated(FracDigits, I64_MAX)

\* an integer of parse_value whose digits leave the range comes back wrapped
C20_IntegersOfParseValueWrap ==
  (ValueCalled /\ IsInteger(uArg.first) /\ FirstCall.result.ok) =>
    LET v == FirstCall.result.val
    IN /\ v.type = "Reference" =>
            /\ v.obj_num = Take(ValueOf(IntDigits), 2)
            /\ v.gen_num = Take(ValueOf(uArg.second), 1)
       /\ v.type = "Number" => v.int = AsI64(Take(ValueOf(IntDigits), 2))

(* ------------------------------------------------------------------ *)
(* Parser::parse_dictionary, one iteration of its loop per step. uArg  *)
(* is the text after `<<`, uRet the parser's position and the entries  *)
(* so far, and after the return the result.                            *)
(* ------------------------------------------------------------------ *)

MaxDict == 4

\* `/`, `K`, `1`, `x`, space, `>`
DictBytes == {47, 75, 49, 120, 32, 62}

RECURSIVE TextsUpTo(_, _)
TextsUpTo(bytes, n) ==
  IF n = 0 THEN {<<>>}
  ELSE LET shorter == TextsUpTo(bytes, n - 1)
       IN shorter \cup {Append(t, b) : t \in shorter, b \in bytes}

\* lines 404-421
remaining_starts_with(data, pos, seq) ==
  LET end == pos + Len(seq)
  IN /\ end <= Len(data)
     /\ Slice(data, pos, end) = seq
     /\ end < Len(data) =>
          \/ IsAsciiWhitespace(At(data, end))
          \/ At(data, end) \in {47, 60, 62, 91, 93, 40, 41}

\* dict.insert(key, value)
DictInsert(dict, key, value) ==
  {e \in dict : e.key # key} \cup {[key |-> key, value |-> value]}

PdfDictionary(dict) == [type |-> "Dictionary", dict |-> dict]

InitDict ==
  /\ vOff /\ dOff /\ tOff /\ kOff /\ gOff /\ fOff
  /\ uFn = "loop"
  /\ \E data \in TextsUpTo(DictBytes, MaxDict) : uArg = [data |-> data]
  /\ uRet = [pos |-> 0, dict |-> {}, skipped |-> 0, result |-> Unset]

\* where the iteration stands after its skip_whitespace_and_comments
DictPos == skip_whitespace_and_comments(uArg.data, uRet.pos)

DictReturn(r, pos) ==
  /\ uRet' = [uRet EXCEPT !.pos = pos, !.result = r]
  /\ uFn' = "returned"
  /\ UNCHANGED <<uArg, vVars, dVars, tVars, kVars, gVars, fVars>>

\* lines 427-431: `>>`
DictEnd ==
  /\ uFn = "loop"
  /\ DictPos < Len(uArg.data) /\ At(uArg.data, DictPos) = 62
  /\ DictPos + 1 < Len(uArg.data) /\ At(uArg.data, DictPos + 1) = 62
  /\ DictReturn(Ok(PdfDictionary(uRet.dict)), DictPos + 2)

\* lines 432-434: `>` and no second `>`
DictMalformedEnd ==
  /\ uFn = "loop"
  /\ DictPos < Len(uArg.data) /\ At(uArg.data, DictPos) = 62
  /\ ~(DictPos + 1 < Len(uArg.data) /\ At(uArg.data, DictPos + 1) = 62)
  /\ DictReturn(Err("Malformed dictionary end"), DictPos)

\* lines 436-438
DictEof ==
  /\ uFn = "loop"
  /\ DictPos >= Len(uArg.data)
  /\ DictReturn(Err("Dictionary key is not a name"), DictPos)

\* lines 439-447: a byte that is not `/`
DictNotName ==
  /\ uFn = "loop"
  /\ DictPos < Len(uArg.data) /\ At(uArg.data, DictPos) \notin {62, 47}
  /\ IF remaining_starts_with(uArg.data, DictPos, <<62, 62>>)
     THEN DictReturn(Ok(PdfDictionary(uRet.dict)), DictPos + 2)
     ELSE /\ uRet' = [uRet EXCEPT !.pos = DictPos + 1, !.skipped = @ + 1]
          /\ UNCHANGED <<uFn, uArg, vVars, dVars, tVars, kVars, gVars, fVars>>

\* lines 448-457: a key and its value
DictEntry ==
  /\ uFn = "loop"
  /\ DictPos < Len(uArg.data) /\ At(uArg.data, DictPos) = 47
  /\ LET key_obj == Parser_parse_name(uArg.data, DictPos)
         value == Parser_parse_value(uArg.data,
                                     skip_whitespace_and_comments(uArg.data, key_obj.pos))
     IN IF ~key_obj.result.ok THEN DictReturn(key_obj.result, key_obj.pos)
        ELSE IF ~value.result.ok THEN DictReturn(value.result, value.pos)
        ELSE /\ uRet' = [uRet EXCEPT
                           !.pos = value.pos,
                           !.dict = DictInsert(@, key_obj.result.val.name,
                                               value.result.val)]
             /\ UNCHANGED <<uFn, uArg, vVars, dVars, tVars, kVars, gVars, fVars>>

NextDict ==
  \/ DictEnd
  \/ DictMalformedEnd
  \/ DictEof
  \/ DictNotName
  \/ DictEntry

SpecDict == InitDict /\ [][NextDict]_vars

\* the loop runs while it can
SpecDictFair == SpecDict /\ WF_vars(NextDict)

DictReturned == uFn = "returned"

\* the iteration stands at a byte, and at `>>`
AtKeyByte == uFn = "loop" /\ DictPos < Len(uArg.data)

AtDictEnd ==
  /\ AtKeyByte /\ At(uArg.data, DictPos) = 62
  /\ DictPos + 1 < Len(uArg.data) /\ At(uArg.data, DictPos + 1) = 62

\* each iteration consumes a byte or returns
DictProgress == uFn = "loop" => (uRet'.pos > uRet.pos \/ uFn' = "returned")

\* a byte that is not `/` and does not open `>>` is skipped
NonNameByteSkipped ==
  (AtKeyByte /\ At(uArg.data, DictPos) # 47 /\ ~AtDictEnd) =>
    (uFn' = "loop" /\ uRet'.pos = DictPos + 1)

\* `>>` after skipped bytes ends the dictionary with Ok
EndAfterSkipped ==
  (AtDictEnd /\ uRet.skipped > 0) =>
    (uFn' = "returned" /\ uRet'.result.ok /\ uRet'.pos = DictPos + 2)

(* C21: parse_dictionary terminates on every input: each iteration of    *)
(* its loop consumes at least one byte or returns, a byte that is not    *)
(* `/` where a key is expected is skipped, and a `>>` reached after      *)
(* skipped bytes still ends the dictionary with Ok.                      *)
C21_ParseDictionaryTerminates ==
  /\ [][DictProgress /\ NonNameByteSkipped /\ EndAfterSkipped]_vars
  /\ <>DictReturned

\* the loop ends on every text, an iteration consuming a byte or returning
C21_LoopEnds == [][DictProgress]_vars /\ <>DictReturned

\* `>>` ends the dictionary with Ok, skipped bytes or not
C21_EndAfterSkippedBytes == [][EndAfterSkipped]_vars

\* every byte but `/` and `>` is skipped where a key is expected
C21_OtherBytesSkipped ==
  [][(AtKeyByte /\ At(uArg.data, DictPos) # 62) => NonNameByteSkipped]_vars

\* a `>` that no second `>` follows is an error, not a skipped byte
C21_LoneGreaterThanIsError ==
  (DictReturned /\ ~uRet.result.ok /\ uRet.pos < Len(uArg.data)) =>
    /\ At(uArg.data, uRet.pos) = 62
    /\ uRet.result.err = "Malformed dictionary end"

(* ------------------------------------------------------------------ *)
(* The places a stream is inflated (extractor/lib.rs, font.rs). A      *)
(* stream's data is [raw, inflates_to]: its bytes and what inflating   *)
(* them gives, nothing when they are not a zlib stream. uArg is the    *)
(* stream and the place it is met, uRet what the public call goes on   *)
(* with: the bytes used as content, or the error it returns.           *)
(* ------------------------------------------------------------------ *)

PdfArray(items) == [type |-> "Array", items |-> items]

\* miniz_oxide::inflate::decompress_to_vec_zlib
decompress_to_vec_zlib(data) ==
  IF IsSome(data.inflates_to) THEN Ok(data.inflates_to[1]) ELSE Err("inflate")

\* the closure every caller passes as `decompress`
decompress(data) ==
  IF decompress_to_vec_zlib(data).ok THEN decompress_to_vec_zlib(data)
  ELSE Err("DecompressionError")

\* lines 303-333: Ok(output_streams) or the error
RECURSIVE handle_stream_filters(_, _, _)
handle_stream_filters(filter_obj, data, output_streams) ==
  IF filter_obj.type = "Name"
  THEN IF filter_obj.name \in {"FlateDecode", "Flate"}
       THEN IF decompress(data).ok
            THEN Ok(Append(output_streams, decompress(data).val))
            ELSE Err("DecompressionError")
       ELSE Err("Unsupported filter")
  ELSE IF filter_obj.type = "Array"
  THEN IF Len(filter_obj.items) = 1
       THEN handle_stream_filters(filter_obj.items[1], data, output_streams)
       ELSE Err("Multiple filters not supported")
  ELSE Err("Invalid Filter entry")

StreamFilters ==
  { None, Some(PdfName("FlateDecode")), Some(PdfName("Flate")),
    Some(PdfName("LZWDecode")), Some(PdfArray(<<PdfName("FlateDecode")>>)),
    Some(PdfArray(<<PdfName("ASCII85Decode"), PdfName("FlateDecode")>>)),
    Some(PdfArray(<<>>)), Some(PdfNull) }

StreamDatas ==
  { [raw |-> <<120, 156, 1>>, inflates_to |-> Some(<<66, 84>>)],
    [raw |-> <<120, 156, 2>>, inflates_to |-> Some(<<>>)],
    [raw |-> <<120, 156, 255>>, inflates_to |-> None],
    [raw |-> <<66, 84>>, inflates_to |-> None] }

StreamPlaces ==
  {"page content", "ToUnicode", "object stream", "form content", "form ToUnicode"}

InitStreams ==
  /\ vOff /\ dOff /\ tOff /\ kOff /\ gOff /\ fOff
  /\ uFn \in StreamPlaces
  /\ \E filter \in StreamFilters, data \in StreamDatas :
       uArg = [place |-> uFn, filter |-> filter, data |-> data]
  /\ uRet = Unset

StreamDone(r) ==
  /\ uRet' = r
  /\ uFn' = "done"
  /\ UNCHANGED <<uArg, vVars, dVars, tVars, kVars, gVars, fVars>>

\* `if let Some(filter) = dict.get("Filter") { handle_stream_filters(..)?; }
\* else { push(data.clone()) }`
FilteredOrRaw ==
  IF IsSome(uArg.filter) THEN handle_stream_filters(uArg.filter[1], uArg.data, <<>>)
  ELSE Ok(<<uArg.data.raw>>)

\* process_page_dict 203-249, process_page_stream 287-291: content_streams
PageContentStream ==
  /\ uFn = "page content"
  /\ StreamDone(FilteredOrRaw)

\* font.rs 100-117: cmap_bytes, the error leaving collect_fonts_from_resources
\* and process_page_dict (254) by `?`
ToUnicodeStream ==
  /\ uFn = "ToUnicode"
  /\ LET temp_vecs == FilteredOrRaw
     IN StreamDone(IF ~temp_vecs.ok THEN temp_vecs
                   ELSE IF temp_vecs.val # <<>> THEN Ok(<<temp_vecs.val[1]>>)
                   ELSE Ok(<<uArg.data.raw>>))

\* parse_pdf 509-525, of a stream of /Type /ObjStm with /First and /N: the
\* bytes handed to parse_obj_stream, none when the stream is passed over
ObjectStream ==
  /\ uFn = "object stream"
  /\ LET decompressed == decompress_to_vec_zlib(uArg.data)
     IN StreamDone(IF decompressed.ok THEN Ok(<<decompressed.val>>) ELSE Ok(<<>>))

\* extract_from_tokens 900-932: form_content_bytes
FormXObjectContent ==
  /\ uFn = "form content"
  /\ LET decompressed_holder ==
           IF IsSome(uArg.filter)
           THEN handle_stream_filters(uArg.filter[1], uArg.data, <<>>)
           ELSE Ok(<<>>)
     IN StreamDone(IF decompressed_holder.ok /\ decompressed_holder.val # <<>>
                   THEN Ok(<<decompressed_holder.val[1]>>)
                   ELSE Ok(<<uArg.data.raw>>))

\* extract_from_tokens 946-961: form_fonts, the ToUnicode stream of a font
\* of the form; an error of collect_fonts_from_resources gives no fonts
FormToUnicodeStream ==
  /\ uFn = "form ToUnicode"
  /\ LET temp_vecs == FilteredOrRaw
     IN StreamDone(IF ~temp_vecs.ok THEN Ok(<<>>)
                   ELSE IF temp_vecs.val # <<>> THEN Ok(<<temp_vecs.val[1]>>)
                   ELSE Ok(<<uArg.data.raw>>))

NextStreams ==
  \/ PageContentStream
  \/ ToUnicodeStream
  \/ ObjectStream
  \/ FormXObjectContent
  \/ FormToUnicodeStream

SpecStreams == InitStreams /\ [][NextStreams]_vars

StreamHandled == uFn = "done"

\* the stream names a Flate filter, alone or as the one filter of an array
FlateFiltered ==
  /\ IsSome(uArg.filter)
  /\ \/ uArg.filter[1] \in {PdfName("FlateDecode"), PdfName("Flate")}
     \/ uArg.filter[1] = PdfArray(<<PdfName("FlateDecode")>>)

\* the place inflates the stream and the inflate fails
InflateFailed ==
  /\ ~IsSome(uArg.data.inflates_to)
  /\ uArg.place = "object stream" \/ FlateFiltered

(* C22: every stream decompression failure met while parsing or         *)
(* extracting (page content stream, ToUnicode stream, object stream,    *)
(* Form XObject content) surfaces as DecompressionError from the public *)
(* call: the stream is never passed over and its still-compressed bytes *)
(* are never used as content.                                           *)
C22_InflateFailureSurfaces ==
  (StreamHandled /\ InflateFailed) => uRet = Err("DecompressionError")

\* the streams of a page and of its fonts do surface the failure
C22_PageStreamsSurface ==
  (StreamHandled /\ InflateFailed /\ uArg.place \in {"page content", "ToUnicode"}) =>
    uRet = Err("DecompressionError")

\* an object stream, a form and a form's font never surface it
C22_OtherStreamsSwallow ==
  (/\ StreamHandled /\ InflateFailed
   /\ uArg.place \in {"object stream", "form content", "form ToUnicode"}) =>
    /\ uRet.ok
    /\ uArg.place = "object stream" => uRet.val = <<>>
    /\ uArg.place = "form content" => uRet.val = <<uArg.data.raw>>
    /\ uArg.place = "form ToUnicode" => uRet.val = <<>>

\* what inflates is used inflated, at every place
C22_InflatedUsed ==
  (/\ StreamHandled /\ IsSome(uArg.data.inflates_to)
   /\ uArg.place = "object stream" \/ FlateFiltered) =>
    uRet = Ok(<<uArg.data.inflates_to[1]>>)

(* ------------------------------------------------------------------ *)
(* parse_obj_stream (extractor/lib.rs 628-660), one iteration of its   *)
(* two loops per step. uArg is the call: the inflated bytes, /First,   *)
(* /N and the build; uRet the headers, the parser's position, the      *)
(* index of the second loop, the objects stored, and the result.       *)
(* ------------------------------------------------------------------ *)

MaxPairs == 2

MaxCount == 3

\* `n as u32` of the f64 of a Number: saturating, a negative one is 0
AsU32(num) ==
  IF num.neg THEN U32_ZERO
  ELSE IF FitsLimbs(num.int, 2, LimbBase) THEN Take(num.int, 2) ELSE U32_MAX

\* `n as usize` of the f64 of a Number: saturating, a negative one is 0
AsUsize(num) ==
  IF num.neg THEN 0
  ELSE IF FitsLimbs(num.int, 1, LimbBase) /\ num.int[1] < UsizeLimit THEN num.int[1]
  ELSE UsizeLimit - 1

\* a + b on usize: the build panics on overflow or wraps
UsizeAddBuilt(a, b, overflow_checks) ==
  IF overflow_checks /\ a + b >= UsizeLimit
  THEN Panic("panic: attempt to add with overflow")
  ELSE Ok(UsizeAdd(a, b))

\* the offsets a prelude writes: 0, 2, past the end, and the largest usize
PreludeOffsets == {0, 2, 9, UsizeLimit - 1}

PreludePairs == {<<DecimalDigits(n), DecimalDigits(o)>> : n \in {1, 2}, o \in PreludeOffsets}

RECURSIVE SeqsOfPairs(_)
SeqsOfPairs(n) ==
  IF n = 0 THEN {<<>>}
  ELSE SeqsOfPairs(n - 1)
         \cup {Append(q, e) : q \in {r \in SeqsOfPairs(n - 1) : Len(r) = n - 1},
                              e \in PreludePairs}

RECURSIVE PreludeText(_)
PreludeText(pairs) ==
  IF pairs = <<>> THEN <<>>
  ELSE Head(pairs)[1] \o <<32>> \o Head(pairs)[2] \o <<32>> \o PreludeText(Tail(pairs))

\* the objects after the prelude: `7 /K`
ObjStmBody == <<55, 32, 47, 75>>

InitObjStm ==
  /\ vOff /\ dOff /\ tOff /\ kOff /\ gOff /\ fOff
  /\ uFn = "headers"
  /\ \E pairs \in SeqsOfPairs(MaxPairs), count \in 0..MaxCount,
        overflow_checks \in BOOLEAN, at \in {"prelude end", "zero", "largest"} :
       uArg = [data |-> PreludeText(pairs) \o ObjStmBody,
               first |-> CASE at = "prelude end" -> Len(PreludeText(pairs))
                           [] at = "zero" -> 0
                           [] at = "largest" -> UsizeLimit - 1,
               count |-> count, overflow_checks |-> overflow_checks,
               pairs |-> Len(pairs)]
  /\ uRet = [headers |-> <<>>, pos |-> 0, i |-> 0, objects |-> {}, result |-> Unset]

ObjStmReturn(r) ==
  /\ uRet' = [uRet EXCEPT !.result = r]
  /\ uFn' = "returned"
  /\ UNCHANGED <<uArg, vVars, dVars, tVars, kVars, gVars, fVars>>

\* lines 636-647: one (obj_num, offset) of the prelude
ObjStmHeader ==
  /\ uFn = "headers" /\ Len(uRet.headers) < uArg.count
  /\ LET obj_num == Parser_parse_number(uArg.data, uRet.pos)
         offset == Parser_parse_number(
                     uArg.data, skip_whitespace_and_comments(uArg.data, obj_num.pos))
     IN IF ~obj_num.result.ok THEN ObjStmReturn(obj_num.result)
        ELSE IF ~offset.result.ok THEN ObjStmReturn(offset.result)
        ELSE /\ uRet' = [uRet EXCEPT
                           !.headers = Append(@, <<AsU32(obj_num.result.val),
                                                   AsUsize(offset.result.val)>>),
                           !.pos = offset.pos]
             /\ UNCHANGED <<uFn, uArg, vVars, dVars, tVars, kVars, gVars, fVars>>

\* the first loop has run `count` times
ObjStmHeadersRead ==
  /\ uFn = "headers" /\ Len(uRet.headers) = uArg.count
  /\ uFn' = "objects"
  /\ UNCHANGED <<uArg, uRet, vVars, dVars, tVars, kVars, gVars, fVars>>

\* lines 648-658: one object cut out of the data and stored
ObjStmObject ==
  /\ uFn = "objects" /\ uRet.i < uArg.count
  /\ LET i == uRet.i + 1
         start == UsizeAddBuilt(uArg.first, uRet.headers[i][2], uArg.overflow_checks)
         end == IF i < uArg.count
                THEN UsizeAddBuilt(uArg.first, uRet.headers[i + 1][2],
                                   uArg.overflow_checks)
                ELSE Ok(Len(uArg.data))
         sub == SliceChecked(uArg.data, start.val, end.val)
         value == Parser_parse_value(sub.val, 0).result
     IN IF ~start.ok THEN ObjStmReturn(start)
        ELSE IF ~end.ok THEN ObjStmReturn(end)
        ELSE IF ~sub.ok THEN ObjStmReturn(sub)
        ELSE IF ~value.ok THEN ObjStmReturn(value)
        ELSE /\ uRet' = [uRet EXCEPT
                           !.i = i,
                           !.objects =
                             {e \in @ : e.id # <<uRet.headers[i][1], 0>>}
                               \cup {[id |-> <<uRet.headers[i][1], 0>>, obj |-> value.val]}]
             /\ UNCHANGED <<uFn, uArg, vVars, dVars, tVars, kVars, gVars, fVars>>

\* line 659
ObjStmDone ==
  /\ uFn = "objects" /\ uRet.i = uArg.count
  /\ ObjStmReturn(Ok(<<>>))

NextObjStm ==
  \/ ObjStmHeader
  \/ ObjStmHeadersRead
  \/ ObjStmObject
  \/ ObjStmDone

SpecObjStm == InitObjStm /\ [][NextObjStm]_vars

ObjStmReturned == uFn = "returned"

ParseErrors ==
  {"Unexpected EOF in number", "Unexpected EOF while parsing value",
   "Name must start with '/'"}

(* C23: object-stream unpacking is safe for every prelude: whatever     *)
(* /First, /N and the (object number, offset) pairs are, decreasing     *)
(* offsets, offsets past the end of the data and a /N above the number  *)
(* of pairs included, parse_obj_stream returns Ok or ParseError without *)
(* an out-of-range slice, and every object stored has generation 0.     *)
C23_ObjStmSafe ==
  /\ ObjStmReturned => (uRet.result.ok \/ uRet.result.err \in ParseErrors)
  /\ \A e \in uRet.objects : e.id[2] = 0

\* every object stored has generation 0
C23_GenerationZero == \A e \in uRet.objects : e.id[2] = 0

\* a /N above the number of pairs runs into the objects, never past the data
C23_CountAbovePairs ==
  (ObjStmReturned /\ Len(uRet.headers) < uArg.count) =>
    uRet.result.err \in ParseErrors

\* the call panics exactly where an addition overflows or a slice is out
\* of range
C23_PanicsAreSlices ==
  (ObjStmReturned /\ ~uRet.result.ok /\ uRet.result.err \notin ParseErrors) =>
    /\ IsPanic(uRet.result)
    /\ LET i == uRet.i + 1
           start == uArg.first + uRet.headers[i][2]
           end == IF i < uArg.count THEN uArg.first + uRet.headers[i + 1][2]
                  ELSE Len(uArg.data)
       IN \/ start >= UsizeLimit \/ end >= UsizeLimit
          \/ start > end \/ end > Len(uArg.data)

(* ------------------------------------------------------------------ *)
(* decode_bytes (extractor/cmap.rs 219-304) and the tables it reads     *)
(* (extractor/encoding.rs). A String is the sequence of its code       *)
(* points, a HashMap a function on its keys. The tables are given on   *)
(* the bytes the model's strings are made of: 0, `A`, 0x81 and 0xE9.   *)
(* ------------------------------------------------------------------ *)

REPLACEMENT_CHARACTER == 65533

FontBytes == {0, 65, 129, 233}

\* HashMap::get
MapGet(map, key) == IF key \in DOMAIN map THEN Some(map[key]) ELSE None

\* u8::to_ascii_lowercase over a name
AsciiLower(name) ==
  [j \in 1..Len(name) |-> IF name[j] \in 65..90 THEN name[j] + 32 ELSE name[j]]

\* encoding.rs 2-56, of the names `space`, `bullet`, `Euro`, of a name of
\* one character and of a name the table does not hold
glyph_to_unicode(name) ==
  IF AsciiLower(name) = <<115, 112, 97, 99, 101>> THEN Some(32)
  ELSE IF AsciiLower(name) = <<98, 117, 108, 108, 101, 116>> THEN Some(8226)
  ELSE IF AsciiLower(name) = <<101, 117, 114, 111>> THEN Some(8364)
  ELSE IF Len(name) = 1 THEN Some(name[1])
  ELSE None

\* encoding.rs 59-100
winansi_to_unicode(byte) ==
  IF byte < 128 THEN byte
  ELSE IF byte = 129 THEN 0
  ELSE byte

\* encoding.rs 103-240
mac_roman_to_unicode(byte) ==
  IF byte < 128 THEN byte
  ELSE IF byte = 129 THEN 197
  ELSE 200

\* encoding.rs 243-338
mac_expert_to_unicode(byte) == IF byte = 233 THEN 74 ELSE 0

\* encoding.rs 341-445
standard_to_unicode(byte) ==
  IF byte < 128 THEN byte
  ELSE IF byte = 233 THEN 233
  ELSE 0

\* encoding.rs 448-463
pdf_doc_to_unicode(byte) ==
  IF byte < 128 THEN byte
  ELSE IF byte = 159 THEN 165
  ELSE IF byte = 160 THEN 8364
  ELSE byte

\* cmap.rs 219-248
RECURSIVE CidLoop(_, _, _, _)
CidLoop(bytes, cmap, i, out) ==
  IF i >= Len(bytes) THEN out
  ELSE LET code == IF i + 1 < Len(bytes)
                   THEN At(bytes, i) * 256 + At(bytes, i + 1)
                   ELSE At(bytes, i)
           txt == MapGet(cmap, code)
       IN CidLoop(bytes, cmap, i + 2,
                  IF IsSome(txt) THEN out \o txt[1]
                  ELSE Append(out, REPLACEMENT_CHARACTER))

RECURSIVE ByteLoop(_, _, _)
ByteLoop(bytes, cmap, out) ==
  IF bytes = <<>> THEN out
  ELSE LET txt == MapGet(cmap, Head(bytes))
       IN ByteLoop(Tail(bytes), cmap,
                   IF IsSome(txt) THEN out \o txt[1]
                   ELSE Append(out, REPLACEMENT_CHARACTER))

cmap_decode_bytes(bytes, cmap, is_cid) ==
  IF is_cid THEN CidLoop(bytes, cmap, 0, <<>>) ELSE ByteLoop(bytes, cmap, <<>>)

\* cmap.rs 280-296: the table of the font's encoding
BaseChar(b, font) ==
  CASE font.encoding = Some("WinAnsiEncoding") -> winansi_to_unicode(b)
    [] font.encoding = Some("MacRomanEncoding") -> mac_roman_to_unicode(b)
    [] font.encoding = Some("MacExpertEncoding") -> mac_expert_to_unicode(b)
    [] font.encoding = Some("StandardEncoding") -> standard_to_unicode(b)
    [] font.encoding = Some("PDFDocEncoding") -> pdf_doc_to_unicode(b)
    [] OTHER -> IF font.subtype = Some("Type1") THEN standard_to_unicode(b)
                ELSE IF b < 128 THEN b
                ELSE REPLACEMENT_CHARACTER

\* cmap.rs 258-304
RECURSIVE base_encode_bytes(_, _, _)
base_encode_bytes(bytes, font, out) ==
  IF bytes = <<>> THEN out
  ELSE LET b == Head(bytes)
           glyph_name == IF IsSome(font.differences)
                         THEN MapGet(font.differences[1], b) ELSE None
           glyph == IF IsSome(glyph_name) THEN glyph_to_unicode(glyph_name[1]) ELSE None
           ch == BaseChar(b, font)
       IN base_encode_bytes(
            Tail(bytes), font,
            IF IsSome(glyph) THEN Append(out, glyph[1])
            ELSE IF ch # 0 /\ ch # REPLACEMENT_CHARACTER THEN Append(out, ch)
            ELSE out)

\* cmap.rs 250-256, with every code handed on to the base encoding when the
\* ToUnicode map does not hold it
decode_bytes_falling_through(bytes, font) ==
  IF /\ IsSome(font.to_unicode_map)
     /\ \A j \in 1..Len(bytes) : bytes[j] \in DOMAIN font.to_unicode_map[1]
  THEN cmap_decode_bytes(bytes, font.to_unicode_map[1], font.subtype = Some("Type0"))
  ELSE base_encode_bytes(bytes, font, <<>>)

\* cmap.rs 250-256
decode_bytes(bytes, font) ==
  IF IsSome(font.to_unicode_map)
  THEN cmap_decode_bytes(bytes, font.to_unicode_map[1], font.subtype = Some("Type0"))
  ELSE base_encode_bytes(bytes, font, <<>>)

MaxText == 3

\* `A` -> `X`, `AA` -> the euro sign, 0xE9 -> the empty string
ToUnicodeMaps == { (65 :> <<88>>) @@ (16705 :> <<8364>>) @@ (233 :> <<>>) }

\* `A` -> /Euro, 0x81 -> /g1 (no such glyph), 0xE9 -> /B
DifferencesMaps ==
  { (65 :> <<69, 117, 114, 111>>) @@ (129 :> <<103, 49>>) @@ (233 :> <<66>>) }

Fonts ==
  [to_unicode_map : {None} \cup {Some(m) : m \in ToUnicodeMaps},
   subtype : {None, Some("Type0"), Some("Type1"), Some("TrueType")},
   differences : {None} \cup {Some(m) : m \in DifferencesMaps},
   encoding : {None, Some("WinAnsiEncoding"), Some("MacRomanEncoding"),
               Some("MacExpertEncoding"), Some("StandardEncoding"),
               Some("PDFDocEncoding"), Some("Identity-H")}]

InitFont ==
  /\ vOff /\ dOff /\ tOff /\ kOff /\ gOff /\ fOff
  /\ uFn = "decode_bytes"
  /\ \E bytes \in TextsUpTo(FontBytes, MaxText), font \in Fonts :
       uArg = [bytes |-> bytes, font |-> font]
  /\ uRet = <<>>

\* extract_from_tokens 782, 795: output.push_str(&decode_bytes(bytes, font))
DecodeBytes ==
  /\ uFn = "decode_bytes"
  /\ uRet' = decode_bytes(uArg.bytes, uArg.font)
  /\ uFn' = "decoded"
  /\ UNCHANGED <<uArg, vVars, dVars, tVars, kVars, gVars, fVars>>

NextFont == DecodeBytes

SpecFont == InitFont /\ [][NextFont]_vars

Decoded == uFn = "decoded"

RECURSIVE Flatten(_)
Flatten(texts) == IF texts = <<>> THEN <<>> ELSE Head(texts) \o Flatten(Tail(texts))

\* the codes of a string: its bytes, or for a Type0 font its pairs of bytes,
\* a last byte without a second one being a code of its own
CodesOf(bytes, font) ==
  IF font.subtype = Some("Type0")
  THEN [k \in 1..((Len(bytes) + 1) \div 2) |->
          IF 2 * k <= Len(bytes) THEN bytes[2 * k - 1] * 256 + bytes[2 * k]
          ELSE bytes[2 * k - 1]]
  ELSE bytes

\* what one code gives under the ToUnicode map
ToUnicodeText(code, font) ==
  IF code \in DOMAIN font.to_unicode_map[1] THEN font.to_unicode_map[1][code]
  ELSE <<REPLACEMENT_CHARACTER>>

\* the Differences entry of the byte names a glyph that resolves
DifferenceResolves(b, font) ==
  /\ IsSome(font.differences) /\ b \in DOMAIN font.differences[1]
  /\ IsSome(glyph_to_unicode(font.differences[1][b]))

\* the base encoding maps the byte
BaseMaps(b, font) == BaseChar(b, font) \notin {0, REPLACEMENT_CHARACTER}

\* what one byte gives without a ToUnicode map
ByteText(b, font) ==
  IF DifferenceResolves(b, font) THEN <<glyph_to_unicode(font.differences[1][b])[1]>>
  ELSE IF BaseMaps(b, font) THEN <<BaseChar(b, font)>>
  ELSE <<>>

(* C24: decoding under a font follows a fixed precedence: a font with a  *)
(* ToUnicode map uses it alone (two bytes per code for Type0, one        *)
(* otherwise, U+FFFD for a code it does not hold); a font without one    *)
(* uses, for each byte, the Differences entry when its glyph name        *)
(* resolves, otherwise the base encoding table, and gives no character   *)
(* for a byte that none of them maps.                                    *)
C24_DecodePrecedence ==
  Decoded =>
    uRet = IF IsSome(uArg.font.to_unicode_map)
           THEN Flatten([k \in 1..Len(CodesOf(uArg.bytes, uArg.font)) |->
                           ToUnicodeText(CodesOf(uArg.bytes, uArg.font)[k], uArg.font)])
           ELSE Flatten([j \in 1..Len(uArg.bytes) |-> ByteText(uArg.bytes[j], uArg.font)])

\* `A` is decoded by its Differences entry and not by the table, 0x81, whose
\* glyph /g1 does not resolve and which the table does not map, is dropped,
\* and so is the byte 0
C24_Witness ==
  /\ Decoded
  /\ ~IsSome(uArg.font.to_unicode_map)
  /\ uArg.font.encoding = Some("WinAnsiEncoding")
  /\ IsSome(uArg.font.differences)
  /\ uArg.bytes = <<65, 129, 0>>
  /\ uRet = <<8364>>

\* a ToUnicode font whose map lacks a code: U+FFFD, although the font's
\* Differences and base encoding both map the byte
C24_ToUnicodeAlone ==
  (/\ Decoded /\ IsSome(uArg.font.to_unicode_map)
   /\ uArg.font.subtype # Some("Type0") /\ uArg.bytes = <<129, 65>>) =>
    uRet = <<REPLACEMENT_CHARACTER, 88>>

(* ------------------------------------------------------------------ *)
(* signed_bytes_extractor.rs, where the blob of get_signature_der lies  *)
(* ------------------------------------------------------------------ *)

\* lines 104-118 of extract_signature_hex: the bytes [hex_start, hex_end)
\* between the '<' after the chosen `/Contents` and the next '>'
signature_hex_span(pdf_bytes, byte_range_pos) ==
  LET fwd == ForwardContents(pdf_bytes, byte_range_pos)
      contents_pos == IF IsSome(fwd) THEN fwd
                      ELSE BackwardContents(pdf_bytes, byte_range_pos)
      cursor_pos == SkipAsciiWhitespace(pdf_bytes, contents_pos[1] + Len(KW_CONTENTS))
      hex_start == cursor_pos + 1
  IN [hex_start |-> hex_start,
      hex_end |-> MinOf(BytePositionsFrom(pdf_bytes, hex_start, 62))]

\* the blob of the file at hand and the ByteRange get_signature_der read
BlobSpan ==
  signature_hex_span(input.pdf.bytes,
                     MinOf(Positions(input.pdf.bytes, KW_BYTERANGE)))

ByteRangeRead == parse_byte_range(input.pdf.bytes).val

SignatureDerReturned == pc # "get_signature_der" /\ pc # "off"

BlobInsideGap ==
  /\ ByteRangeRead.offset1 + ByteRangeRead.len1 <= BlobSpan.hex_start
  /\ BlobSpan.hex_end <= ByteRangeRead.offset2

\* C25: whenever get_signature_der succeeds, the hex blob it decoded lies
\* wholly inside the gap [offset1 + len1, offset2) between the two segments
\* of the ByteRange.
C25_BlobInsideGap ==
  (SignatureDerReturned /\ sb.ok) => BlobInsideGap

\* what the code does give: the blob lies inside the file, after a
\* `/Contents` and its '<'
C25_BlobInsideFile ==
  (SignatureDerReturned /\ sb.ok) =>
    /\ Len(KW_CONTENTS) < BlobSpan.hex_start
    /\ BlobSpan.hex_start <= BlobSpan.hex_end
    /\ BlobSpan.hex_end < Len(input.pdf.bytes)
    /\ input.pdf.bytes[BlobSpan.hex_start] = 60
    /\ input.pdf.bytes[BlobSpan.hex_end + 1] = 62

(* ------------------------------------------------------------------ *)
(* verify_pdf_signature: the message digest of an Ok result             *)
(* ------------------------------------------------------------------ *)

SignatureReturned == pc \in {"verify_and_extract", "verify_text", "verify_pdf_claim", "commit", "done"}

\* the hash of the signed bytes under the digest algorithm of the SignerInfo
SignedBytesHash ==
  ShaDigest(digest_algorithm_from_oid(FromDer(sb.val.signature_der).digest_oid).val,
            sb.val.signed_data)

\* C26: whenever verify_pdf_signature returns Ok, with is_valid true or
\* false, result.message_digest is the hash of the signed bytes under the
\* SignerInfo's digest algorithm; parse_signed_data never returns an absent
\* expected digest.
C26_MessageDigestIsHash ==
  /\ params.ok => IsSome(params.val.signed_data_message_digest)
  /\ (SignatureReturned /\ signature.ok) =>
       /\ signature.val.message_digest = SignedBytesHash
       /\ signature.val.message_digest = params.val.signed_data_message_digest[1]

\* verify_pdf_signature returned Ok with is_valid = false
C26_Witness ==
  SignatureReturned /\ signature.ok /\ ~signature.val.is_valid

\* a digest that differs from the calculated hash has produced the error
C26_MismatchIsError ==
  (SignatureReturned /\ params.ok
     /\ digest_algorithm_from_oid(FromDer(sb.val.signature_der).digest_oid).ok
     /\ params.val.signed_data_message_digest[1] # SignedBytesHash)
    => (~signature.ok /\ signature.err = "MessageDigestMismatch")

(* ------------------------------------------------------------------ *)
(* verify_and_extract: the order of its steps                           *)
(* ------------------------------------------------------------------ *)

ContentReturned == pc \in {"verify_text", "verify_pdf_claim", "commit", "done"}

\* the steps follow one another as the `?` operators of lines 81-112 and
\* 52-59 allow: on to the next step, or out with the step's error
StepOrder ==
  /\ pc = "get_signature_der" =>
       /\ pc' = IF sb'.ok THEN "parse_signed_data" ELSE "verify_and_extract"
       /\ ~sb'.ok => signature' = Err(sb'.err)
  /\ pc = "parse_signed_data" =>
       /\ pc' = IF params'.ok THEN "check_message_digest" ELSE "verify_and_extract"
       /\ ~params'.ok => signature' = Err(params'.err)
  /\ pc = "check_message_digest" =>
       /\ pc' = IF calc'.ok THEN "check_rsa_signature" ELSE "verify_and_extract"
       /\ ~calc'.ok => signature' = Err(calc'.err)
  /\ pc = "check_rsa_signature" => pc' = "verify_and_extract"
  /\ pc = "verify_and_extract" => pc' = "verify_text"

\* the steps that ran are those before the first error, and the error
\* returned is that one
FirstErrorWins ==
  /\ ~sb.ok => (~IsSet(params) /\ ~IsSet(calc) /\ content.err = sb.err)
  /\ (sb.ok /\ ~params.ok) =>
       (IsSet(params) /\ ~IsSet(calc) /\ content.err = params.err)
  /\ (params.ok /\ ~calc.ok) => (IsSet(calc) /\ content.err = calc.err)
  /\ (calc.ok /\ ~signature.ok) => content.err = signature.err
  /\ (signature.ok /\ ~signature.val.is_valid) =>
       content.err = "signature verification failed"
  /\ (signature.ok /\ signature.val.is_valid) =>
       /\ content.ok = extract_text(input.pdf).ok
       /\ content.err = extract_text(input.pdf).err

\* C27: verify_and_extract runs signed-bytes extraction, PKCS#7 parsing, the
\* message-digest check, the RSA check and only then text extraction, the
\* first error winning: when the signature step errors or yields
\* is_valid = false the text is not extracted and the error returned is the
\* signature's, even when the PDF body cannot be parsed.
C27_FixedOrderFirstErrorWins ==
  /\ [](ContentReturned => FirstErrorWins)
  /\ [][StepOrder]_vars

\* a file whose signature step fails and whose body cannot be parsed
C27_Witness ==
  /\ ContentReturned
  /\ ~(signature.ok /\ signature.val.is_valid)
  /\ ~extract_text(input.pdf).ok
  /\ content.err # extract_text(input.pdf).err

\* the text is extracted, and its error returned, only after a valid signature
C27_TextErrorsAfterValidSignature ==
  (ContentReturned /\ content.err \in {"ParseError", "DecompressionError"})
    => (signature.ok /\ signature.val.is_valid)

(* ------------------------------------------------------------------ *)
(* pdf-utils/extractor/src/lib.rs, extract_from_tokens: the content     *)
(* interpreter, one step per token. A content stream is given as its    *)
(* tokens. uRet holds the open calls (stack, the page's call first),    *)
(* the output buffer and the visited set. A frame holds the arguments   *)
(* and the locals of one call: tokens, fonts, resources, i, in_text and *)
(* current_font; id, visited_before and output_before record the `Do`   *)
(* that made the call; after_et, tf_in_object and tf_after_et record    *)
(* that the call has interpreted an ET, a Tf since the last BT and a Tf *)
(* since the last ET.                                                   *)
(* ------------------------------------------------------------------ *)

MaxPhrases == 4

Operator(op) == Tok("Operator", op)

Number(negative, int) ==
  Tok("Number", [negative |-> negative, int |-> int, frac |-> <<>>])

\* a Type1 font with WinAnsiEncoding
FontA ==
  [to_unicode_map |-> None, subtype |-> Some("Type1"), differences |-> None,
   encoding |-> Some("WinAnsiEncoding")]

NoFonts == [name \in {} |-> FontA]

\* operands with their operator
Phrase(k) ==
  CASE k = 1 -> <<Operator("BT")>>
    [] k = 2 -> <<Operator("ET")>>
    [] k = 3 -> <<Tok("Name", "F1"), Number(FALSE, 12), Operator("Tf")>>
    [] k = 4 -> <<Tok("Name", "F9"), Number(FALSE, 12), Operator("Tf")>>
    [] k = 5 -> <<Tok("String", <<65>>), Operator("Tj")>>
    [] k = 6 -> <<Tok("String", <<65>>), Operator("'")>>
    [] k = 7 -> <<Tok("Array", <<Tok("String", <<65>>), Number(TRUE, 300)>>),
                  Operator("TJ")>>
    [] k = 8 -> <<Tok("Name", "X1"), Operator("Do")>>

PhraseIds == 1..8

RECURSIVE Phrases(_)
Phrases(ks) == IF ks = <<>> THEN <<>> ELSE Phrase(Head(ks)) \o Phrases(Tail(ks))

\* a form that leaves its text object open, sets a font and invokes itself
FormOpenText ==
  [Subtype |-> "Form", Resources |-> Some([Font |-> ("F1" :> FontA), XObject |-> 1]),
   tokens |-> Phrases(<<1, 3, 5, 8>>)]

\* a form without /Resources that sets a font outside a text object
FormInherits ==
  [Subtype |-> "Form", Resources |-> None, tokens |-> Phrases(<<3, 1, 5, 2>>)]

ImageXObject == [Subtype |-> "Image", Resources |-> None, tokens |-> <<>>]

\* what /X1 is in the XObject dictionary: a reference to a form that
\* invokes itself, a form stream held in the dictionary itself, a reference
\* to an image, and no entry
XObjectDicts ==
  << ("X1" :> [kind |-> "Reference", id |-> 1, stream |-> FormOpenText]),
     ("X1" :> [kind |-> "Stream", id |-> 0, stream |-> FormInherits]),
     ("X1" :> [kind |-> "Reference", id |-> 2, stream |-> ImageXObject]),
     [name \in {} |-> 0] >>

InitText ==
  /\ vOff /\ dOff /\ tOff /\ kOff /\ gOff /\ fOff
  /\ uFn = "extract_from_tokens"
  /\ \E ks \in SeqsUpTo(PhraseIds, MaxPhrases), x \in DOMAIN XObjectDicts :
       /\ uArg = [tokens |-> Phrases(ks), phrases |-> ks, XObject |-> x]
       /\ uRet = [stack |-> <<[tokens |-> Phrases(ks),
                               fonts |-> ("F1" :> FontA),
                               resources |-> [Font |-> ("F1" :> FontA), XObject |-> x],
                               i |-> 0, in_text |-> FALSE, current_font |-> None,
                               id |-> None, visited_before |-> {},
                               output_before |-> <<>>,
                               after_et |-> FALSE, tf_in_object |-> FALSE,
                               tf_after_et |-> FALSE]>>,
                  output |-> <<>>, visited |-> {}]

Frame == uRet.stack[Len(uRet.stack)]

Token == At(Frame.tokens, Frame.i)

AtToken ==
  uFn = "extract_from_tokens" /\ uRet.stack # <<>> /\ Frame.i < Len(Frame.tokens)

AtOperator(ops) == AtToken /\ Token.type = "Operator" /\ Token.val \in ops

\* the call on top goes on with `i += 1` and the locals of `frame`
TextStep(frame, output) ==
  /\ uRet' = [uRet EXCEPT !.stack[Len(uRet.stack)] = [frame EXCEPT !.i = @ + 1],
                          !.output = output]
  /\ UNCHANGED <<uFn, uArg>>
  /\ UNCHANGED <<vVars, dVars, tVars, kVars, gVars, fVars>>

\* line 746: a token that is not an operator
NotOperator == AtToken /\ Token.type # "Operator" /\ TextStep(Frame, uRet.output)

\* lines 748-751
OpBT ==
  /\ AtOperator({"BT"})
  /\ TextStep([Frame EXCEPT !.in_text = TRUE, !.tf_in_object = FALSE], uRet.output)

\* the ET arm without line 755: the font is kept
OpET_keeping_font ==
  /\ AtOperator({"ET"})
  /\ TextStep([Frame EXCEPT !.in_text = FALSE, !.after_et = TRUE,
                            !.tf_after_et = FALSE],
              Append(uRet.output, 10))

\* lines 752-757
OpET ==
  /\ AtOperator({"ET"})
  /\ TextStep([Frame EXCEPT !.in_text = FALSE, !.current_font = None,
                            !.after_et = TRUE, !.tf_after_et = FALSE],
              Append(uRet.output, 10))

\* lines 758-771: the font of the name two tokens before the operator
font_of_Tf(frame) ==
  IF frame.i >= 2 /\ At(frame.tokens, frame.i - 2).type = "Name"
  THEN MapGet(frame.fonts, At(frame.tokens, frame.i - 2).val)
  ELSE frame.current_font

OpTf ==
  /\ AtOperator({"Tf"})
  /\ TextStep([Frame EXCEPT !.current_font = font_of_Tf(Frame),
                            !.tf_in_object = TRUE, !.tf_after_et = TRUE],
              uRet.output)

\* lines 772-785: what Tj, ' and " append
shown_text(frame, op) ==
  IF ~IsSome(frame.current_font) THEN <<>>
  ELSE (IF op # "Tj" THEN <<10>> ELSE <<>>)
         \o (IF frame.i >= 1 /\ At(frame.tokens, frame.i - 1).type = "String"
             THEN decode_bytes(At(frame.tokens, frame.i - 1).val, frame.current_font[1])
             ELSE <<>>)

OpShowText ==
  /\ AtOperator({"Tj", "'", "\""}) /\ Frame.in_text
  /\ TextStep(Frame, uRet.output \o shown_text(Frame, Token.val))

\* lines 795-802: the elements of the array
RECURSIVE shown_elements(_, _)
shown_elements(arr, font) ==
  IF arr = <<>> THEN <<>>
  ELSE (IF Head(arr).type = "String" THEN decode_bytes(Head(arr).val, font)
        ELSE IF Head(arr).type = "Number" /\ Head(arr).val.negative
                /\ Head(arr).val.int > 200
        THEN <<32>>
        ELSE <<>>)
         \o shown_elements(Tail(arr), font)

\* lines 786-806: what TJ appends
shown_array(frame) ==
  IF IsSome(frame.current_font) /\ frame.i >= 1
     /\ At(frame.tokens, frame.i - 1).type = "Array"
  THEN shown_elements(At(frame.tokens, frame.i - 1).val, frame.current_font[1])
  ELSE <<>>

OpShowArray ==
  /\ AtOperator({"TJ"}) /\ Frame.in_text
  /\ TextStep(Frame, uRet.output \o shown_array(Frame))

\* lines 830-879: the form stream the name before `Do` resolves to, with
\* the id of its reference if it is held by reference
form_of_Do(frame) ==
  IF ~(frame.i >= 1 /\ At(frame.tokens, frame.i - 1).type = "Name") THEN None
  ELSE LET entry == MapGet(XObjectDicts[frame.resources.XObject],
                           At(frame.tokens, frame.i - 1).val)
       IN IF IsSome(entry) /\ entry[1].stream.Subtype = "Form"
          THEN Some([id |-> IF entry[1].kind = "Reference" THEN Some(entry[1].id)
                            ELSE None,
                     xf |-> entry[1].stream])
          ELSE None

\* lines 934-941: `visited.insert` answers false for a form that is in the set
should_recurse(form, visited) ==
  ~(IsSome(form.id) /\ form.id[1] \in visited)

\* lines 880-970: the nested call, with the form's resources or else the
\* caller's, the fonts of those resources, and locals of its own
OpDoForm ==
  /\ AtOperator({"Do"})
  /\ IsSome(form_of_Do(Frame))
  /\ should_recurse(form_of_Do(Frame)[1], uRet.visited)
  /\ LET form == form_of_Do(Frame)[1]
         form_specific_resources ==
           IF IsSome(form.xf.Resources) THEN form.xf.Resources[1]
           ELSE Frame.resources
     IN uRet' = [stack |-> Append(uRet.stack,
                             [tokens |-> form.xf.tokens,
                              fonts |-> form_specific_resources.Font,
                              resources |-> form_specific_resources,
                              i |-> 0, in_text |-> FALSE, current_font |-> None,
                              id |-> form.id, visited_before |-> uRet.visited,
                              output_before |-> uRet.output,
                              after_et |-> FALSE, tf_in_object |-> FALSE,
                               tf_after_et |-> FALSE]),
                 output |-> uRet.output,
                 visited |-> IF IsSome(form.id) THEN uRet.visited \cup {form.id[1]}
                             ELSE uRet.visited]
  /\ UNCHANGED <<uFn, uArg>>
  /\ UNCHANGED <<vVars, dVars, tVars, kVars, gVars, fVars>>

\* lines 830-941: no form, or a form that is in the visited set
OpDoSkip ==
  /\ AtOperator({"Do"})
  /\ ~(IsSome(form_of_Do(Frame))
       /\ should_recurse(form_of_Do(Frame)[1], uRet.visited))
  /\ TextStep(Frame, uRet.output)

\* line 986: the `_` arm, which the text operators outside a text object
\* fall to
OpOther ==
  /\ AtToken /\ Token.type = "Operator"
  /\ ~(Token.val \in {"BT", "ET", "Tf", "Do"})
  /\ ~(Token.val \in {"Tj", "'", "\"", "TJ"} /\ Frame.in_text)
  /\ TextStep(Frame, uRet.output)

\* the nested call handing its in_text and current_font back to the caller
TextFormReturn_sharing_locals ==
  /\ uFn = "extract_from_tokens" /\ Len(uRet.stack) > 1
  /\ Frame.i >= Len(Frame.tokens)
  /\ LET caller == uRet.stack[Len(uRet.stack) - 1]
     IN uRet' = [stack |-> [SubSeq(uRet.stack, 1, Len(uRet.stack) - 1)
                              EXCEPT ![Len(uRet.stack) - 1] =
                                [caller EXCEPT !.i = @ + 1,
                                               !.in_text = Frame.in_text,
                                               !.current_font = Frame.current_font]],
                 output |-> uRet.output,
                 visited |-> IF IsSome(Frame.id) THEN uRet.visited \ {Frame.id[1]}
                             ELSE uRet.visited]
  /\ UNCHANGED <<uFn, uArg>>
  /\ UNCHANGED <<vVars, dVars, tVars, kVars, gVars, fVars>>

\* lines 972-976 and `i += 1` of the caller: the nested call is over
TextFormReturn ==
  /\ uFn = "extract_from_tokens" /\ Len(uRet.stack) > 1
  /\ Frame.i >= Len(Frame.tokens)
  /\ LET caller == uRet.stack[Len(uRet.stack) - 1]
     IN uRet' = [stack |-> [SubSeq(uRet.stack, 1, Len(uRet.stack) - 1)
                              EXCEPT ![Len(uRet.stack) - 1] =
                                [caller EXCEPT !.i = @ + 1]],
                 output |-> uRet.output,
                 visited |-> IF IsSome(Frame.id) THEN uRet.visited \ {Frame.id[1]}
                             ELSE uRet.visited]
  /\ UNCHANGED <<uFn, uArg>>
  /\ UNCHANGED <<vVars, dVars, tVars, kVars, gVars, fVars>>

\* the call for the page is over
TextReturn ==
  /\ uFn = "extract_from_tokens" /\ Len(uRet.stack) = 1
  /\ Frame.i >= Len(Frame.tokens)
  /\ uFn' = "returned"
  /\ UNCHANGED <<uArg, uRet>>
  /\ UNCHANGED <<vVars, dVars, tVars, kVars, gVars, fVars>>

NextText ==
  \/ NotOperator
  \/ OpBT
  \/ OpET
  \/ OpTf
  \/ OpShowText
  \/ OpShowArray
  \/ OpDoForm
  \/ OpDoSkip
  \/ OpOther
  \/ TextFormReturn
  \/ TextReturn

SpecText == InitText /\ [][NextText]_vars

(* ------------------------------------------------------------------ *)
(* Properties of the content interpreter                                *)
(* ------------------------------------------------------------------ *)

\* the call on top is the same call after the step
SameCall == Len(uRet'.stack) >= Len(uRet.stack)

FrameAfter == uRet'.stack[Len(uRet.stack)]

ShowOperators == {"Tj", "'", "\"", "TJ"}

TfNamesKnownFont ==
  /\ AtOperator({"Tf"}) /\ Frame.i >= 2
  /\ At(Frame.tokens, Frame.i - 2).type = "Name"
  /\ At(Frame.tokens, Frame.i - 2).val \in DOMAIN Frame.fonts

TfNamesUnknownFont ==
  /\ AtOperator({"Tf"}) /\ Frame.i >= 2
  /\ At(Frame.tokens, Frame.i - 2).type = "Name"
  /\ At(Frame.tokens, Frame.i - 2).val \notin DOMAIN Frame.fonts

\* ET unsets the font, only a Tf naming a font of the table sets it, a Tf
\* naming an unknown font unsets it, and nothing is shown without a font
FontRules ==
  SameCall =>
    /\ AtOperator({"ET"}) => ~IsSome(FrameAfter.current_font)
    /\ (~IsSome(Frame.current_font) /\ IsSome(FrameAfter.current_font))
         => TfNamesKnownFont
    /\ TfNamesUnknownFont => ~IsSome(FrameAfter.current_font)
    /\ (AtOperator(ShowOperators) /\ ~IsSome(Frame.current_font))
         => uRet'.output = uRet.output

\* C28: the current font does not survive a text object: after every ET it
\* is unset until a later Tf names a font of the font table, so Tj, ', " and
\* TJ in a following BT...ET that has no Tf of its own append nothing, not
\* even the newline of ' and "; a Tf naming an unknown font also unsets it.
C28_NoTextWithoutOwnTf ==
  [][/\ FontRules
     /\ (AtOperator(ShowOperators) /\ Frame.in_text /\ Frame.after_et
           /\ ~Frame.tf_in_object)
          => uRet'.output = uRet.output]_vars

\* C28 as the code has it: the text operators after an ET append nothing
\* unless a Tf was interpreted since that ET, inside the text object or
\* between the ET and its BT.
C28_NoTextWithoutTfSinceET ==
  [][/\ FontRules
     /\ (AtOperator(ShowOperators) /\ Frame.in_text /\ Frame.after_et
           /\ ~Frame.tf_after_et)
          => uRet'.output = uRet.output]_vars

\* a text operator of a text object that follows an ET, with no Tf since,
\* has been interpreted and has appended nothing after the newline of the ET
C28_Witness ==
  /\ uFn = "extract_from_tokens" /\ Len(uRet.stack) = 1
  /\ Frame.i >= 1
  /\ At(Frame.tokens, Frame.i - 1).type = "Operator"
  /\ At(Frame.tokens, Frame.i - 1).val \in ShowOperators
  /\ Frame.in_text /\ Frame.after_et /\ ~Frame.tf_after_et
  /\ uRet.output = <<10>>

\* the locals of the calls below the one on top stay as they are
CallersKeepLocals ==
  \A j \in 1..(Len(uRet.stack) - 1) :
    /\ uRet'.stack[j].in_text = uRet.stack[j].in_text
    /\ uRet'.stack[j].current_font = uRet.stack[j].current_font

\* a `Do` that enters a form, or passes on without a nested call
DoEntered ==
  AtOperator({"Do"}) =>
    /\ FrameAfter.in_text = Frame.in_text
    /\ FrameAfter.current_font = Frame.current_font
    /\ uRet'.output = uRet.output
    /\ Len(uRet'.stack) = Len(uRet.stack) => uRet'.visited = uRet.visited
    /\ Len(uRet'.stack) > Len(uRet.stack) =>
         /\ ~uRet'.stack[Len(uRet'.stack)].in_text
         /\ ~IsSome(uRet'.stack[Len(uRet'.stack)].current_font)
         /\ uRet'.stack[Len(uRet'.stack)].i = 0

\* the nested call of a `Do` returns
DoReturned ==
  Len(uRet'.stack) < Len(uRet.stack) =>
    /\ uRet'.visited = Frame.visited_before
    /\ StartsWith(uRet'.output, Frame.output_before)
    /\ uRet'.stack[Len(uRet'.stack)].i = uRet.stack[Len(uRet'.stack)].i + 1

\* C29: a `Do`, whether or not it recurses into a Form XObject, leaves the
\* caller's in_text and current_font as they were and the visited set equal
\* to its value before the operator; what the caller sees of it is text
\* appended to the output, and the form is interpreted with in_text = false
\* and no current font of its own.
C29_DoFrameEffect ==
  [][/\ CallersKeepLocals
     /\ DoEntered
     /\ DoReturned
     /\ StartsWith(uRet'.output, uRet.output)]_vars

\* the page is back from a form that set a font, left its text object open
\* and showed text: the page's locals are as before the `Do`
C29_Witness ==
  /\ uFn = "extract_from_tokens" /\ Len(uRet.stack) = 1
  /\ uArg.phrases = <<1, 8>> /\ uArg.XObject = 1
  /\ Frame.i = Len(Frame.tokens)
  /\ Frame.in_text /\ ~IsSome(Frame.current_font)
  /\ uRet.output = <<65>> /\ uRet.visited = {}

\* the visited set holds the forms entered by reference whose calls are open
C29_VisitedIsOpenReferences ==
  uRet.visited =
    {uRet.stack[j].id[1] : j \in {k \in 1..Len(uRet.stack) : IsSome(uRet.stack[k].id)}}

(* ------------------------------------------------------------------ *)
(* circuits/lib/src/nullifier.rs: the preimages of two tuples           *)
(* (message_digest_hash, signer_key_hash, substring_hash, page_number,  *)
(* offset). The hashes are B256 values; page_number is a u8 and offset  *)
(* a u32, given here below 2^31.                                        *)
(* ------------------------------------------------------------------ *)

\* 32-byte hashes: zero, a one in the last byte, a one in the first byte
Hashes32 ==
  { B256_ZERO,
    [i \in 1..HASH_LEN |-> IF i = HASH_LEN THEN 1 ELSE 0],
    [i \in 1..HASH_LEN |-> IF i = 1 THEN 1 ELSE 0] }

PageNumbers == {0, 1, 255}

Offsets == {0, 1, 256, 16777216}

NullifierInputs ==
  [message_digest_hash : Hashes32, signer_key_hash : Hashes32,
   substring_hash : Hashes32, page_number : PageNumbers, offset : Offsets]

InitNullifier ==
  /\ vOff /\ dOff /\ tOff /\ kOff /\ gOff /\ fOff
  /\ uFn = "compute_nullifier"
  /\ \E a \in NullifierInputs, b \in NullifierInputs : uArg = [a |-> a, b |-> b]
  /\ uRet = <<>>

PreimageOf(t) ==
  NullifierPreimage(t.message_digest_hash, t.signer_key_hash, t.substring_hash,
                    t.page_number, t.offset)

\* lines 13-20, for each of the two tuples
ComputeNullifier ==
  /\ uFn = "compute_nullifier"
  /\ uRet' = [a |-> PreimageOf(uArg.a), b |-> PreimageOf(uArg.b)]
  /\ uFn' = "returned"
  /\ UNCHANGED <<uArg, vVars, dVars, tVars, kVars, gVars, fVars>>

NextNullifier == ComputeNullifier

SpecNullifier == InitNullifier /\ [][NextNullifier]_vars

\* C30: the nullifier preimage is an injective encoding of its inputs: for
\* 32-byte hashes two tuples give the same preimage bytes only if they are
\* equal component by component; changing only the page number, or only the
\* offset, always changes the preimage.
C30_PreimageInjective ==
  uFn = "returned" =>
    /\ uRet.a = uRet.b =>
         /\ uArg.a.message_digest_hash = uArg.b.message_digest_hash
         /\ uArg.a.signer_key_hash = uArg.b.signer_key_hash
         /\ uArg.a.substring_hash = uArg.b.substring_hash
         /\ uArg.a.page_number = uArg.b.page_number
         /\ uArg.a.offset = uArg.b.offset
    /\ uArg.b = [uArg.a EXCEPT !.page_number = uArg.b.page_number]
         /\ uArg.a.page_number # uArg.b.page_number => uRet.a # uRet.b
    /\ uArg.b = [uArg.a EXCEPT !.offset = uArg.b.offset]
         /\ uArg.a.offset # uArg.b.offset => uRet.a # uRet.b

\* two tuples that differ in the page number and in the offset only, the one
\* byte moved from the page to the top of the offset: the preimages differ
C30_Witness ==
  /\ uFn = "returned"
  /\ uArg.a.page_number = 1 /\ uArg.a.offset = 0
  /\ uArg.b = [uArg.a EXCEPT !.page_number = 0, !.offset = 16777216]
  /\ Len(uRet.a) = Len(NULLIFIER_DOMAIN) + 3 * HASH_LEN + 1 + 4
  /\ Len(uRet.b) = Len(uRet.a)
  /\ uRet.a # uRet.b

====
